---- MODULE Spec2Model ----
(***************************************************************************)
(* Model of the Strava activity extractor: the paginated fetch             *)
(* StravaExtractor.get_activities as it is written in the three front ends *)
(* (strava_extractor.py, cutie-extractor.py, strava_gui.py).               *)
(*                                                                         *)
(* One fetch is a loop: build the query parameters, issue one GET, look at *)
(* the response, and either return, break out of the loop, or go on to the *)
(* next page.  The upstream is the environment: for every request it may   *)
(* answer with any status and any body, or not answer at all.              *)
(***************************************************************************)
EXTENDS Integers, Sequences, FiniteSets, TLC

(***************************************************************************)
(* Bounds of the model.                                                    *)
(***************************************************************************)
\* pages a fetch may request before the model stops following it
MaxPages == 3
\* records the upstream puts in one page
MaxPageLen == 2
\* fetches one behaviour of SpecPair runs one after the other
MaxCalls == 2
\* fields of an activity record that differ from the two base records
MaxEdits == 2
\* records handed to one export
MaxExportLen == 2
\* get_activities calls that run at the same time on one extractor, and
\* fetch threads a window starts
MaxThreads == 2
\* digits typed at the custom prompt of the terminal window
MaxInput == 1
\* fetch threads a window starts in the runs checked for progress
MaxLiveThreads == 1

(***************************************************************************)
(* Program constants.                                                      *)
(***************************************************************************)
\* per_page = min(per_page, 200)
StravaMaxPerPage == 200
\* response.status_code == 401 / == 429
StatusUnauthorized == 401
StatusRateLimited == 429

(***************************************************************************)
(* Python values.                                                          *)
(***************************************************************************)
\* Optional[x]: None is the empty tuple, a value x is the one-tuple <<x>>
None == <<>>
Some(x) == <<x>>
IsNone(o) == o = <<>>

Min(a, b) == IF a <= b THEN a ELSE b
Max(a, b) == IF a >= b THEN a ELSE b

\* truth value of an Optional[int]: None and 0 are falsy
Truthy(o) == ~IsNone(o) /\ o[1] # 0

\* s[:m] for a list s and an int m (a negative m counts from the end)
SlicePrefix(s, m) ==
    IF m >= 0 THEN SubSeq(s, 1, Min(m, Len(s)))
              ELSE SubSeq(s, 1, Max(0, Len(s) + m))

\* int(d.timestamp()): a datetime d is held in half seconds since the epoch,
\* timestamp() is d / 2 as a float and int() truncates toward zero
Timestamp(d) == IF d >= 0 THEN d \div 2 ELSE -((-d) \div 2)

(***************************************************************************)
(* The scalar values of an activity record and of a normalized row: None,  *)
(* a bool, an int, a float (held in thousandths: 18.0 is 18000) or a str   *)
(* (a sequence of characters).                                             *)
(***************************************************************************)
VNone == [t |-> "none", n |-> 0, s |-> <<>>]
VBool(b) == [t |-> "bool", n |-> IF b THEN 1 ELSE 0, s |-> <<>>]
VInt(i) == [t |-> "int", n |-> i, s |-> <<>>]
VFloat(thousandths) == [t |-> "float", n |-> thousandths, s |-> <<>>]
VStr(chars) == [t |-> "str", n |-> 0, s |-> chars]

\* bool(x)
PyTruthy(x) ==
    CASE x.t = "none" -> FALSE
      [] x.t = "str" -> x.s # <<>>
      [] OTHER -> x.n # 0

\* x can stand in an arithmetic expression (a bool counts as 0 or 1)
IsNumber(x) == x.t \in {"bool", "int", "float"}

\* the number x in thousandths
Milli(x) == IF x.t = "float" THEN x.n ELSE 1000 * x.n

\* the integer nearest to num / den (den > 0), when num / den is not half way
Nearest(num, den) ==
    IF num >= 0 THEN (2 * num + den) \div (2 * den)
                ELSE -((2 * (-num) + den) \div (2 * den))

(***************************************************************************)
(* round(d / 1000, 2) for a whole number d of metres, in hundredths of a   *)
(* kilometre.  d / 1000 is the double nearest to the quotient and round()  *)
(* rounds that double correctly.  When d ends in 5 the quotient is half    *)
(* way between two hundredths; the double is then above or below it (or,   *)
(* when d / 1000 is a multiple of 1/8, exactly on it, and round() goes to  *)
(* the even hundredth).  With q = d / 5 and the double N / 2^s holding 53  *)
(* bits, the side is read off q * 2^(s-3) mod 25.                          *)
(***************************************************************************)
RECURSIVE Pow2Mod25(_)
Pow2Mod25(k) == IF k = 0 THEN 1 ELSE (2 * Pow2Mod25(k - 1)) % 25

\* floor(log2(num / den)) for num, den > 0
RECURSIVE Log2Floor(_, _)
Log2Floor(num, den) ==
    IF num >= 2 * den THEN 1 + Log2Floor(num, 2 * den)
    ELSE IF num < den THEN Log2Floor(2 * num, den) - 1
    ELSE 0

HalfWayKm(d) ==
    LET lo == (d - 5) \div 10
        r == ((d \div 5) % 25 * Pow2Mod25(49 - Log2Floor(d, 1000))) % 25
    IN  IF r = 0 THEN (IF lo % 2 = 0 THEN lo ELSE lo + 1)
        ELSE IF 2 * r < 25 THEN lo
        ELSE lo + 1

\* the digits after the second decimal cut off instead of rounded
RoundKm_truncate(milli) == milli \div 10000

\* round(x / 1000, 2) in hundredths, for x >= 0 given in thousandths
RoundKm(milli) ==
    IF milli % 10000 = 5000 THEN HalfWayKm(milli \div 1000)
    ELSE Nearest(milli, 10000)

\* round(x / 60, 2) in hundredths, for x given in thousandths (a whole
\* number of seconds is never half way between two hundredths of a minute)
RoundMinutes(milli) == Nearest(milli, 600)

\* round(x * 3.6, 2) in hundredths, for x given in thousandths (never half
\* way: 9 * milli / 25 has an even numerator over 50)
RoundKmh(milli) == Nearest(9 * milli, 25)

(***************************************************************************)
(* Inputs of a fetch.                                                      *)
(***************************************************************************)
\* the three copies of StravaExtractor
Variants == {"strava_extractor", "cutie_extractor", "strava_gui"}
\* start_date and end_date, in half seconds since the epoch
StartDates == {-3, 4}
EndDates == {7}
\* the per_page argument: below, at and above the upstream maximum
PerPageArgs == {30, 200, 500}
\* the max_activities argument: None or an int
MaxActivitiesArgs == {None, Some(-1), Some(0), Some(1), Some(3)}

(***************************************************************************)
(* The upstream's answers.  A record of page p is the pair <<p, i>>: the   *)
(* i-th record of that page.  A JSON object body contributes its keys when *)
(* it is iterated; its one key is written <<0, 1>>.                        *)
(***************************************************************************)
ListBody(p, n) == [i \in 1..n |-> <<p, i>>]
ObjectKeys == << <<0, 1>> >>

\* no response at all: requests.get raises ConnectionError or Timeout
NoResponse ==
    { [kind |-> k, status |-> 0, btype |-> "none", items |-> <<>>] :
        k \in {"conn_error", "timeout"} }

\* statuses the upstream may answer with
Statuses == {200, 304, StatusUnauthorized, StatusRateLimited, 500}

\* raise_for_status(): HTTPError for a 4xx or 5xx status, nothing otherwise
RaisesForStatus(status) == status >= 400 /\ status < 600

\* bodies of page p: a JSON array of 0..MaxPageLen records, a JSON object with
\* one key, a truthy scalar (a number, true), a falsy value (null, 0, false,
\* {}), or bytes that are not JSON
Bodies(p) ==
    { [btype |-> "list", items |-> ListBody(p, n)] : n \in 0..MaxPageLen }
    \cup { [btype |-> "object", items |-> ObjectKeys],
           [btype |-> "scalar", items |-> <<>>],
           [btype |-> "falsy", items |-> <<>>],
           [btype |-> "badjson", items |-> <<>>] }

\* the body of a response is read only when neither status test returns and
\* raise_for_status() does not raise; it is left out of the other responses
Responses(p) ==
    NoResponse
    \cup { [kind |-> "http", status |-> s, btype |-> "none", items |-> <<>>] :
             s \in { t \in Statuses : RaisesForStatus(t) } }
    \cup { [kind |-> "http", status |-> s, btype |-> b.btype, items |-> b.items] :
             s \in { t \in Statuses : ~RaisesForStatus(t) }, b \in Bodies(p) }

(***************************************************************************)
(* extract_activity_data: one raw activity record to one flat row.  A      *)
(* record is a function from the keys it holds to their values; a row is   *)
(* the ordered list of its (field name, value) pairs, a dict keeping the   *)
(* order of insertion.  A field evaluates to Some(value), or to None when  *)
(* its expression raises TypeError.                                        *)
(***************************************************************************)
\* "activity.get(key) or None": a zero, False or "" turned into None
Get_orNone(activity, key) ==
    IF key \in DOMAIN activity /\ PyTruthy(activity[key]) THEN activity[key] ELSE VNone

\* activity.get(key): None when the key is absent
Get(activity, key) == IF key \in DOMAIN activity THEN activity[key] ELSE VNone

\* the default forgotten: activity.get(key)
GetDefault_noDefault(activity, key, default) ==
    IF key \in DOMAIN activity THEN activity[key] ELSE VNone

\* activity.get(key, default)
GetDefault(activity, key, default) ==
    IF key \in DOMAIN activity THEN activity[key] ELSE default

\* round(x / 1000, 2)
DistanceKm(x) ==
    IF IsNumber(x) THEN Some(VFloat(10 * RoundKm(Milli(x)))) ELSE None

\* round(x / 60, 2)
TimeMinutes(x) ==
    IF IsNumber(x) THEN Some(VFloat(10 * RoundMinutes(Milli(x)))) ELSE None

\* the rounding applied to a zero or absent speed as well
SpeedKmh_always(x) ==
    IF IsNumber(x) THEN Some(VFloat(10 * RoundKmh(Milli(x)))) ELSE Some(x)

\* speed = activity.get(key, 0); if speed: speed = round(speed * 3.6, 2)
SpeedKmh(x) ==
    IF ~PyTruthy(x) THEN Some(x)
    ELSE IF IsNumber(x) THEN Some(VFloat(10 * RoundKmh(Milli(x))))
    ELSE None

\* x[:10]: a str is cut to its first 10 characters, anything else raises
FirstTen(x) ==
    IF x.t = "str" THEN Some(VStr(SubSeq(x.s, 1, Min(10, Len(x.s))))) ELSE None

\* the field list of cutie-extractor.py and strava_gui.py
CompactFields(activity) ==
    << <<"id", Some(Get(activity, "id"))>>,
       <<"name", Some(Get(activity, "name"))>>,
       <<"distance", DistanceKm(GetDefault(activity, "distance", VInt(0)))>>,
       <<"moving_time", TimeMinutes(GetDefault(activity, "moving_time", VInt(0)))>>,
       <<"elapsed_time", Some(Get(activity, "elapsed_time"))>>,
       <<"total_elevation_gain", Some(Get(activity, "total_elevation_gain"))>>,
       <<"start_date", Some(GetDefault(activity, "start_date", VStr(<<>>)))>>,
       <<"average_speed", SpeedKmh(GetDefault(activity, "average_speed", VInt(0)))>>,
       <<"max_speed", SpeedKmh(GetDefault(activity, "max_speed", VInt(0)))>>,
       <<"average_temp", Some(Get(activity, "average_temp"))>>,
       <<"elev_high", Some(Get(activity, "elev_high"))>>,
       <<"elev_low", Some(Get(activity, "elev_low"))>>,
       <<"calories", Some(Get(activity, "calories"))>>,
       <<"pr_count", Some(Get(activity, "pr_count"))>> >>

\* the field list of strava_extractor.py
ExtendedFields(activity) ==
    << <<"id", Some(Get(activity, "id"))>>,
       <<"name", Some(Get(activity, "name"))>>,
       <<"type", Some(Get(activity, "type"))>>,
       <<"date", FirstTen(GetDefault(activity, "start_date", VStr(<<>>)))>>,
       <<"start_time", Some(GetDefault(activity, "start_date", VStr(<<>>)))>>,
       <<"distance_m", Some(Get(activity, "distance"))>>,
       <<"distance_km", DistanceKm(GetDefault(activity, "distance", VInt(0)))>>,
       <<"moving_time_s", Some(Get(activity, "moving_time"))>>,
       <<"moving_time_min", TimeMinutes(GetDefault(activity, "moving_time", VInt(0)))>>,
       <<"elapsed_time_s", Some(Get(activity, "elapsed_time"))>>,
       <<"elevation_gain_m", Some(Get(activity, "total_elevation_gain"))>>,
       <<"average_speed_ms", Some(Get(activity, "average_speed"))>>,
       <<"max_speed_ms", Some(Get(activity, "max_speed"))>>,
       <<"average_hr", Some(Get(activity, "average_heartrate"))>>,
       <<"max_hr", Some(Get(activity, "max_heartrate"))>>,
       <<"calories", Some(Get(activity, "calories"))>>,
       <<"location", Some(GetDefault(activity, "location_city", VStr(<<>>)))>>,
       <<"kudos", Some(Get(activity, "kudos_count"))>>,
       <<"commute", Some(Get(activity, "commute"))>>,
       <<"trainer", Some(Get(activity, "trainer"))>>,
       <<"manual", Some(Get(activity, "manual"))>> >>

\* the fields as the copy v of extract_activity_data evaluates them
Fields(v, activity) ==
    IF v = "strava_extractor" THEN ExtendedFields(activity)
    ELSE CompactFields(activity)

\* some field's expression raises: the call raises TypeError
Raises(fields) == \E i \in 1..Len(fields) : IsNone(fields[i][2])

\* a dict built without the fields whose value is None
RowOf_skipNull(fields) ==
    LET NotNull(f) == f[2][1] # VNone
        kept == SelectSeq(fields, NotNull)
    IN  [i \in 1..Len(kept) |-> [k |-> kept[i][1], v |-> kept[i][2][1]]]

\* the returned dict
RowOf(fields) == [i \in 1..Len(fields) |-> [k |-> fields[i][1], v |-> fields[i][2][1]]]

\* extract_activity_data(activity): Some(row), or None when it raises
ExtractActivityData(v, activity) ==
    LET fields == Fields(v, activity) IN
    IF Raises(fields) THEN None ELSE Some(RowOf(fields))

\* list(row.keys())
KeysOf(row) == [i \in 1..Len(row) |-> row[i].k]

\* row[key], for a key the row has
ValueOf(row, key) == row[CHOOSE i \in 1..Len(row) : row[i].k = key].v

(***************************************************************************)
(* Activity records given to the normalizer: a complete record as the      *)
(* upstream sends it, or the empty record, changed in up to MaxEdits keys: *)
(* a key removed, or set to another value (null, a zero, a value of        *)
(* another type, a distance on and around a half-way point).               *)
(***************************************************************************)
SourceKeys ==
    {"id", "name", "type", "start_date", "distance", "moving_time",
     "elapsed_time", "total_elevation_gain", "average_speed", "max_speed",
     "average_heartrate", "max_heartrate", "calories", "location_city",
     "kudos_count", "commute", "trainer", "manual", "average_temp",
     "elev_high", "elev_low", "pr_count"}

StartDateStr == VStr(<<"2", "0", "2", "4", "-", "0", "1", "-", "0", "2", "T", "0", "3", ":", "0", "4", ":", "0", "5", "Z">>)

FullRecord ==
    [k \in SourceKeys |->
        CASE k = "id" -> VInt(7)
          [] k = "name" -> VStr(<<"R", "u", "n">>)
          [] k = "type" -> VStr(<<"R", "u", "n">>)
          [] k = "start_date" -> StartDateStr
          [] k = "distance" -> VInt(10234)
          [] k = "moving_time" -> VInt(3661)
          [] k = "elapsed_time" -> VInt(4000)
          [] k = "total_elevation_gain" -> VFloat(150500)
          [] k = "average_speed" -> VFloat(5000)
          [] k = "max_speed" -> VFloat(7250)
          [] k = "average_heartrate" -> VFloat(141300)
          [] k = "max_heartrate" -> VInt(172)
          [] k = "calories" -> VFloat(512000)
          [] k = "location_city" -> VNone
          [] k = "kudos_count" -> VInt(3)
          [] k = "commute" -> VBool(FALSE)
          [] k = "trainer" -> VBool(FALSE)
          [] k = "manual" -> VBool(TRUE)
          [] k = "average_temp" -> VInt(21)
          [] k = "elev_high" -> VFloat(95200)
          [] k = "elev_low" -> VFloat(12400)
          [] k = "pr_count" -> VInt(0) ]

EmptyRecord == [k \in {} |-> VNone]

\* the other values a key may hold
OtherValues(k) ==
    CASE k = "distance" ->
            {VNone, VInt(0), VInt(10235), VInt(10236), VInt(125), VFloat(1500500)}
      [] k = "moving_time" -> {VNone, VInt(0), VInt(100)}
      [] k = "average_speed" ->
            {VNone, VInt(0), VFloat(0), VFloat(3472), VInt(5), VStr(<<"x">>)}
      [] k = "max_speed" -> {VNone, VFloat(0), VFloat(7250)}
      [] k = "start_date" -> {VNone, VStr(<<"2", "0", "2", "4">>), StartDateStr}
      [] k = "elapsed_time" -> {VNone, VInt(0), VInt(4000)}
      [] k = "total_elevation_gain" -> {VNone, VFloat(150500)}
      [] OTHER -> {VNone}

\* del activity[key]
Without(activity, key) == [k \in DOMAIN activity \ {key} |-> activity[k]]

\* activity[key] = value
With(activity, key, value) ==
    [k \in DOMAIN activity \cup {key} |-> IF k = key THEN value ELSE activity[k]]

\* one change of a record: a key removed, a key set to a value, or nothing
Edits ==
    { [op |-> "del", key |-> k, value |-> VNone] : k \in SourceKeys }
    \cup UNION { { [op |-> "set", key |-> k, value |-> x] : x \in OtherValues(k) } :
                  k \in SourceKeys }
    \cup { [op |-> "skip", key |-> "id", value |-> VNone] }

ApplyEdit(activity, e) ==
    CASE e.op = "del" -> Without(activity, e.key)
      [] e.op = "set" -> With(activity, e.key, e.value)
      [] OTHER -> activity

\* the changes es[1], .., es[n] applied in turn
RECURSIVE ApplyEdits(_, _, _)
ApplyEdits(activity, es, n) ==
    IF n = 0 THEN activity ELSE ApplyEdit(ApplyEdits(activity, es, n - 1), es[n])

(***************************************************************************)
(* State.                                                                  *)
(*   variant  which copy of the extractor runs                             *)
(*   call     the running get_activities call: its arguments, its locals   *)
(*            (activities, page, per_page, after, before), its position pc *)
(*            ("loop": about to issue a request, "wait": request in        *)
(*            flight, "returned", "raised"), its return value ret, and the *)
(*            history of the call: sent (the params of every request), got *)
(*            (every response), progress (every progress line printed) and *)
(*            outcome (how the call ended).                                *)
(*   prev     the outcome and return value of the fetch before this one    *)
(*   ncalls   fetches started so far                                       *)
(*   activity the record handed to extract_activity_data                   *)
(*   norm     the extract_activity_data call: its position pc ("idle",     *)
(*            "call", "returned", "raised"), the record as it was when the *)
(*            call began (input) and the row it returned                   *)
(*   exp      the export_to_csv call (see below)                           *)
(*   file     the destination file: None while it does not exist, else     *)
(*            Some(the records it holds)                                   *)
(***************************************************************************)
VARIABLES variant, call, prev, ncalls, activity, norm, exp, file,
          calls, lists, cli, gui, tui, threads, queue

\* calls, lists: get_activities calls running at the same time, each with
\* the list that its name "activities" is bound to; cli, gui, tui: the front
\* ends (the prompt of strava_extractor.py, the window of strava_gui.py, the
\* terminal of cutie-extractor.py); threads: the fetch threads a front end
\* has started; queue: the callbacks handed to root.after(0, ...), in order
frontVars == <<calls, lists, cli, gui, tui, threads, queue>>

vars == <<variant, call, prev, ncalls, activity, norm, exp, file,
          calls, lists, cli, gui, tui, threads, queue>>

\* no front end is running and no calls run side by side
NoFrontEnd ==
    /\ calls = <<>>
    /\ lists = <<>>
    /\ cli = [pc |-> "off"]
    /\ gui = [status |-> "off"]
    /\ tui = [mode |-> "off"]
    /\ threads = <<>>
    /\ queue = <<>>

\* no extract_activity_data call and no export_to_csv call is under way
NormIdle == [pc |-> "idle", input |-> EmptyRecord, row |-> <<>>]
ExportIdle ==
    [pc |-> "idle", activities |-> <<>>, fieldnames |-> <<>>, i |-> 0,
     result |-> None, before |-> None]
NoExtractNoExport ==
    /\ activity = EmptyRecord
    /\ norm = NormIdle
    /\ exp = ExportIdle
    /\ file = None

(***************************************************************************)
(* get_activities, statement by statement.                                 *)
(***************************************************************************)
\* the clamp forgotten: per_page goes out as the caller passed it
ClampPerPage_none(per_page) == per_page

\* per_page = min(per_page, 200)
ClampPerPage(per_page) == Min(per_page, StravaMaxPerPage)

\* the call after the statements before the loop: activities = [], page = 1,
\* per_page clamped, after and before computed once
NewCall(start_date, end_date, per_page, max_activities) ==
    [ start_date     |-> start_date,
      end_date       |-> end_date,
      per_page_arg   |-> per_page,
      max_activities |-> max_activities,
      activities     |-> <<>>,
      page           |-> 1,
      per_page       |-> ClampPerPage(per_page),
      after          |-> Timestamp(start_date),
      before         |-> Timestamp(end_date),
      pc             |-> "loop",
      ret            |-> None,
      outcome        |-> "running",
      sent           |-> <<>>,
      got            |-> <<>>,
      progress       |-> <<>> ]

\* params = {"after": after, "before": before, "page": page, "per_page": per_page}
Params(c) ==
    [after |-> c.after, before |-> c.before, page |-> c.page, per_page |-> c.per_page]

\* a return statement: the call ends with a value
Return(c, value, outcome) ==
    [c EXCEPT !.pc = "returned", !.ret = value, !.outcome = outcome]

\* a 401 handled like a 429: the accumulated records are returned
On401_keep(v, c) == Return(c, Some(c.activities), "AuthFailed")

\* if response.status_code == 401: return [] (strava_extractor.py),
\* return None (cutie-extractor.py, strava_gui.py)
On401(v, c) ==
    Return(c, IF v = "strava_extractor" THEN Some(<<>>) ELSE None, "AuthFailed")

\* a 429 handled like a 401: the accumulated records are dropped
On429_discard(c) == Return(c, Some(<<>>), "RateLimited")

\* if response.status_code == 429: return activities
On429(c) == Return(c, Some(c.activities), "RateLimited")

\* except requests.exceptions.RequestException: break, then return activities
OnRequestException(c) == Return(c, Some(c.activities), "TransientFailure")

\* the test for an empty page forgotten: the loop goes on to the next page
OnEmptyPage_continue(c) == [c EXCEPT !.page = @ + 1, !.pc = "loop"]

\* if not page_activities: break, then return activities
OnEmptyPage(c) == Return(c, Some(c.activities), "Ok")

\* an exception that is no RequestException leaves get_activities uncaught
OnUncaught(c) == [c EXCEPT !.pc = "raised", !.outcome = "Raised"]

\* the cap test left out: the loop never breaks on the cap
CapReached_never(max_activities, activities) == FALSE

\* max_activities and len(activities) >= max_activities
CapReached(max_activities, activities) ==
    Truthy(max_activities) /\ Len(activities) >= max_activities[1]

\* page += 1
NextPage(page) == page + 1

\* activities.extend(page_activities); the cap test with its truncation and
\* break; otherwise page += 1 and the loop goes round
OnPage(c, page_activities) ==
    LET extended == c.activities \o page_activities IN
    IF CapReached(c.max_activities, extended)
    THEN LET cut == SlicePrefix(extended, c.max_activities[1]) IN
         Return([c EXCEPT !.activities = cut], Some(cut), "Ok")
    ELSE [c EXCEPT !.activities = extended, !.page = NextPage(@), !.pc = "loop"]

\* print(f"   Page {page}: {len(page_activities)} activities (Total:
\* {len(activities)})"): the progress line of strava_extractor.py, reached
\* only when the cap test did not break out of the loop; the copies in
\* cutie-extractor.py and strava_gui.py have no such statement
PrintProgress(v, c, page_activities) ==
    LET extended == c.activities \o page_activities IN
    IF v = "strava_extractor" /\ ~CapReached(c.max_activities, extended)
    THEN [c EXCEPT !.progress =
             Append(@, [page |-> c.page, count |-> Len(page_activities),
                        total |-> Len(extended)])]
    ELSE c

\* the response r has arrived
Got(c, r) == [c EXCEPT !.got = Append(@, r)]

\* no fetch is under way
FetchIdle ==
    /\ call = [NewCall(4, 7, StravaMaxPerPage, None) EXCEPT !.pc = "idle"]
    /\ prev = None
    /\ ncalls = 0

(***************************************************************************)
(* Initial states: a fetch has been called with some arguments.            *)
(***************************************************************************)
Init ==
    /\ variant \in Variants
    /\ \E s \in StartDates, e \in EndDates, pp \in PerPageArgs,
          m \in MaxActivitiesArgs :
          call = NewCall(s, e, pp, m)
    /\ prev = None
    /\ ncalls = 1
    /\ NoExtractNoExport
    /\ NoFrontEnd

(***************************************************************************)
(* Actions.                                                                *)
(***************************************************************************)
\* requests.get(url, headers, params, timeout=10) is issued for the page
SendRequest ==
    /\ call.pc = "loop"
    /\ call.page <= MaxPages
    /\ call' = [call EXCEPT !.pc = "wait", !.sent = Append(@, Params(call))]
    /\ UNCHANGED <<variant, prev, ncalls, activity, norm, exp, file, frontVars>>

\* requests.get raises ConnectionError or Timeout
RecvNoResponse ==
    /\ call.pc = "wait"
    /\ \E r \in Responses(call.page) :
          /\ r.kind # "http"
          /\ call' = OnRequestException(Got(call, r))
    /\ UNCHANGED <<variant, prev, ncalls, activity, norm, exp, file, frontVars>>

\* the response has status 401
Recv401 ==
    /\ call.pc = "wait"
    /\ \E r \in Responses(call.page) :
          /\ r.kind = "http" /\ r.status = StatusUnauthorized
          /\ call' = On401(variant, Got(call, r))
    /\ UNCHANGED <<variant, prev, ncalls, activity, norm, exp, file, frontVars>>

\* the response has status 429
Recv429 ==
    /\ call.pc = "wait"
    /\ \E r \in Responses(call.page) :
          /\ r.kind = "http" /\ r.status = StatusRateLimited
          /\ call' = On429(Got(call, r))
    /\ UNCHANGED <<variant, prev, ncalls, activity, norm, exp, file, frontVars>>

\* the response has another 4xx or 5xx status: raise_for_status() raises
\* HTTPError, a RequestException
RecvHttpError ==
    /\ call.pc = "wait"
    /\ \E r \in Responses(call.page) :
          /\ r.kind = "http"
          /\ r.status \notin {StatusUnauthorized, StatusRateLimited}
          /\ RaisesForStatus(r.status)
          /\ call' = OnRequestException(Got(call, r))
    /\ UNCHANGED <<variant, prev, ncalls, activity, norm, exp, file, frontVars>>

\* response.json() fails on a body that is not JSON: it raises
\* requests.exceptions.JSONDecodeError, which is a RequestException (requests
\* 2.27 and later, what an install without a pin gives) and is caught
RecvInvalidJson ==
    /\ call.pc = "wait"
    /\ \E r \in Responses(call.page) :
          /\ r.kind = "http" /\ ~RaisesForStatus(r.status)
          /\ r.btype = "badjson"
          /\ call' = OnRequestException(Got(call, r))
    /\ UNCHANGED <<variant, prev, ncalls, activity, norm, exp, file, frontVars>>

\* the body is falsy: an empty array, null, 0, false or {}
RecvEmptyPage ==
    /\ call.pc = "wait"
    /\ \E r \in Responses(call.page) :
          /\ r.kind = "http" /\ ~RaisesForStatus(r.status)
          /\ \/ r.btype = "falsy"
             \/ r.btype = "list" /\ r.items = <<>>
          /\ call' = OnEmptyPage(Got(call, r))
    /\ UNCHANGED <<variant, prev, ncalls, activity, norm, exp, file, frontVars>>

\* the body is a truthy value that cannot be iterated (a number, true):
\* activities.extend raises TypeError, which no except clause catches
RecvScalar ==
    /\ call.pc = "wait"
    /\ \E r \in Responses(call.page) :
          /\ r.kind = "http" /\ ~RaisesForStatus(r.status)
          /\ r.btype = "scalar"
          /\ call' = OnUncaught(Got(call, r))
    /\ UNCHANGED <<variant, prev, ncalls, activity, norm, exp, file, frontVars>>

\* the body is a non-empty array, or an object with a key
RecvPage ==
    /\ call.pc = "wait"
    /\ \E r \in Responses(call.page) :
          /\ r.kind = "http" /\ ~RaisesForStatus(r.status)
          /\ r.btype \in {"list", "object"} /\ r.items # <<>>
          /\ call' = OnPage(PrintProgress(variant, Got(call, r), r.items), r.items)
    /\ UNCHANGED <<variant, prev, ncalls, activity, norm, exp, file, frontVars>>

\* one step of a fetch
Fetch ==
    \/ SendRequest
    \/ RecvNoResponse
    \/ Recv401
    \/ Recv429
    \/ RecvHttpError
    \/ RecvInvalidJson
    \/ RecvEmptyPage
    \/ RecvScalar
    \/ RecvPage

Next == Fetch

Spec == Init /\ [][Next]_vars

\* the same fetch when every step that can be taken is taken at last: the
\* loop runs on, and requests.get(..., timeout=10) comes back with a response
\* or with the Timeout or ConnectionError it raises
InitLive ==
    /\ variant \in Variants
    /\ \E m \in {None} \cup { Some(k) : k \in 1..MaxPages } :
          call = NewCall(4, 7, StravaMaxPerPage, m)
    /\ prev = None
    /\ ncalls = 1
    /\ NoExtractNoExport
    /\ NoFrontEnd

SpecLive == InitLive /\ [][Next]_vars /\ WF_vars(Next)

(***************************************************************************)
(* Several get_activities calls on one extractor at the same time, as the  *)
(* threads of a GUI run them.  page, params and the loop position are      *)
(* locals of each call; "activities = []" binds a new list in each call.   *)
(* The extractor itself (access_token, headers) is only read.              *)
(***************************************************************************)
\* what happens to the call c when the response r to its request arrives:
\* the tests of the loop body in their order
OnResponse(v, c, r) ==
    IF r.kind # "http" THEN OnRequestException(c)
    ELSE IF r.status = StatusUnauthorized THEN On401(v, c)
    ELSE IF r.status = StatusRateLimited THEN On429(c)
    ELSE IF RaisesForStatus(r.status) THEN OnRequestException(c)
    ELSE IF r.btype = "badjson" THEN OnRequestException(c)
    ELSE IF r.btype = "falsy" \/ (r.btype = "list" /\ r.items = <<>>)
         THEN OnEmptyPage(c)
    ELSE IF r.btype = "scalar" THEN OnUncaught(c)
    ELSE OnPage(PrintProgress(v, c, r.items), r.items)

\* the request for the page is issued
OnSend(c) == [c EXCEPT !.pc = "wait", !.sent = Append(@, Params(c))]

\* one list on the extractor that every call appends to
AccumulatorOf_shared(t) == 1

\* the list bound to "activities" in call t: its own
AccumulatorOf(t) == t

\* call t as its code sees it
Frame(t) == [calls[t] EXCEPT !.activities = lists[AccumulatorOf(t)]]

\* the answers the upstream gives the calls that run side by side
InterleavedResponses(p) ==
    { r \in Responses(p) :
        \/ r.kind = "conn_error"
        \/ r.kind = "http" /\ r.status \in {StatusUnauthorized, StatusRateLimited}
        \/ /\ r.kind = "http" /\ r.status = 200
           /\ r.btype \in {"list", "scalar"}
           /\ Len(r.items) <= 1 }

\* the arguments of the calls: the window of a GUI fetch, a cap of two
InterleavedCall == NewCall(4, 7, StravaMaxPerPage, Some(2))

InitInterleaved ==
    /\ variant \in Variants
    /\ calls = [t \in 1..MaxThreads |-> InterleavedCall]
    /\ lists = [t \in 1..MaxThreads |-> <<>>]
    /\ cli = [pc |-> "off"]
    /\ gui = [status |-> "off"]
    /\ tui = [mode |-> "off"]
    /\ threads = <<>>
    /\ queue = <<>>
    /\ FetchIdle
    /\ NoExtractNoExport

\* call t issues its request
ThreadSend(t) ==
    /\ calls[t].pc = "loop"
    /\ calls' = [calls EXCEPT ![t] = OnSend(Frame(t))]
    /\ UNCHANGED <<variant, call, prev, ncalls, activity, norm, exp, file,
                   lists, cli, gui, tui, threads, queue>>

\* call t gets its response and runs the loop body on it
ThreadRecv(t) ==
    /\ calls[t].pc = "wait"
    /\ \E r \in InterleavedResponses(calls[t].page) :
          LET c == OnResponse(variant, Got(Frame(t), r), r) IN
          /\ calls' = [calls EXCEPT ![t] = c]
          /\ lists' = [lists EXCEPT ![AccumulatorOf(t)] = c.activities]
    /\ UNCHANGED <<variant, call, prev, ncalls, activity, norm, exp, file,
                   cli, gui, tui, threads, queue>>

NextInterleaved == \E t \in 1..MaxThreads : ThreadSend(t) \/ ThreadRecv(t)

SpecInterleaved == InitInterleaved /\ [][NextInterleaved]_vars

(***************************************************************************)
(* The front ends.  A datetime is held in half days: midnight of day d is  *)
(* 2 d, and datetime.now() is the noon of today.  An entry text or a line  *)
(* typed at a prompt is held as the datetime strptime makes of it, None    *)
(* when strptime raises ValueError.                                        *)
(***************************************************************************)
\* today's day number
Today == 100
Day(d) == 2 * d
Now == Day(Today) + 1
\* t - timedelta(days=n)
DaysBefore(t, n) == t - 2 * n
\* strftime("%Y-%m-%d") followed by strptime: the midnight of the same day
DateOf(t) == 2 * (t \div 2)

\* the validation left out
Inverted_never(start_date, end_date) == FALSE

\* if start_date > end_date
Inverted(start_date, end_date) == start_date > end_date

\* a record of the list that the fetch of thread t gets for its window
Fetched(t, start_date, end_date) ==
    [thread |-> t, after |-> start_date, before |-> end_date]

\* what get_activities(start, end) can hand back to a front end: None (a
\* 401 in the GUI copies), an empty list or a list of records; an exception
\* can leave it as well
FetchResults(t, start_date, end_date) ==
    {None, Some(<<>>), Some(<<Fetched(t, start_date, end_date)>>)}

\* a fetch thread that has not been started
IdleThread ==
    [pc |-> "idle", start_date |-> 0, end_date |-> 0, result |-> Some(<<>>),
     called |-> FALSE, how |-> "none", handled |-> FALSE]

\* the thread the next fetch is started in (0 when none is left)
FreeThread ==
    IF \E t \in DOMAIN threads : threads[t].pc = "idle"
    THEN CHOOSE t \in DOMAIN threads :
             /\ threads[t].pc = "idle"
             /\ \A u \in DOMAIN threads : threads[u].pc = "idle" => t <= u
    ELSE 0

\* root.after(0, callback): the callback and what its closure holds
After(q, cb, th, t) ==
    Append(q, [cb |-> cb, t |-> t, activities |-> th.result,
               start_date |-> th.start_date, end_date |-> th.end_date])

\* a thread that has ended: its locals are gone
ThreadEnded(th) ==
    [IdleThread EXCEPT !.pc = "done", !.called = th.called, !.how = th.how]

(***************************************************************************)
(* strava_extractor.py: get_date_range, then main calls get_activities.    *)
(***************************************************************************)
\* the dates typed at the prompts
CliDates == {Day(Today - 7), Day(Today), Day(Today + 1)}

CliStart == [pc |-> "start_prompt", start_date |-> 0, end_date |-> 0]

\* "last7" or "lastweek" at the first prompt
CliLast7 ==
    /\ cli.pc = "start_prompt"
    /\ cli' = [cli EXCEPT !.pc = "called",
                          !.end_date = Now, !.start_date = DaysBefore(Now, 7)]
    /\ UNCHANGED <<variant, call, prev, ncalls, activity, norm, exp, file,
                   calls, lists, gui, tui, threads, queue>>

\* a line at the first prompt that parse_date_input parses or not
CliStartDate ==
    /\ cli.pc = "start_prompt"
    /\ \E typed \in {None} \cup { Some(d) : d \in CliDates } :
          cli' = IF IsNone(typed) THEN cli
                 ELSE [cli EXCEPT !.pc = "end_prompt", !.start_date = typed[1]]
    /\ UNCHANGED <<variant, call, prev, ncalls, activity, norm, exp, file,
                   calls, lists, gui, tui, threads, queue>>

\* the line at the second prompt: empty for now, a date, or unparsable;
\* then the test of the window
CliEndDate ==
    /\ cli.pc = "end_prompt"
    /\ \E typed \in {[line |-> "", date |-> Now], [line |-> "bad", date |-> 0]}
                     \cup { [line |-> "date", date |-> d] : d \in CliDates } :
          cli' = IF typed.line = "bad" THEN [cli EXCEPT !.pc = "start_prompt"]
                 ELSE LET end_date == typed.date IN
                      IF Inverted(cli.start_date, end_date)
                      THEN [cli EXCEPT !.pc = "start_prompt"]
                      ELSE [cli EXCEPT !.pc = "called", !.end_date = end_date]
    /\ UNCHANGED <<variant, call, prev, ncalls, activity, norm, exp, file,
                   calls, lists, gui, tui, threads, queue>>

(***************************************************************************)
(* strava_gui.py: the window, its fetch thread and the callbacks the       *)
(* thread hands to the main loop.                                          *)
(***************************************************************************)
\* the texts a user types into the start entry and into the end entry
GuiTypedStart == {None, Some(Day(Today - 7)), Some(Day(Today + 1))}
GuiTypedEnd == {None, Some(Day(Today))}

\* the window after setup_ui
GuiStart ==
    [ start_date_var |-> Some(DateOf(DaysBefore(Now, 7))),
      end_date_var   |-> Some(DateOf(Now)),
      fetch_button   |-> "normal",
      export_button  |-> "disabled",
      status         |-> "Ready",
      activities     |-> <<>>,
      preview        |-> <<>>,
      dialogs        |-> 0 ]

\* no message box is open: the window takes clicks and keys
GuiTakesInput == gui.dialogs = 0

\* the user edits an entry
GuiTypeStart ==
    /\ GuiTakesInput
    /\ \E typed \in GuiTypedStart : gui' = [gui EXCEPT !.start_date_var = typed]
    /\ UNCHANGED <<variant, call, prev, ncalls, activity, norm, exp, file,
                   calls, lists, cli, tui, threads, queue>>

GuiTypeEnd ==
    /\ GuiTakesInput
    /\ \E typed \in GuiTypedEnd : gui' = [gui EXCEPT !.end_date_var = typed]
    /\ UNCHANGED <<variant, call, prev, ncalls, activity, norm, exp, file,
                   calls, lists, cli, tui, threads, queue>>

\* set_last7_days (set_this_week, set_this_month and the slider differ in
\* the number of days only): the window from seven days back until today
set_last7_days ==
    /\ GuiTakesInput
    /\ gui' = [gui EXCEPT !.start_date_var = Some(DateOf(DaysBefore(Now, 7))),
                          !.end_date_var = Some(DateOf(Now))]
    /\ UNCHANGED <<variant, call, prev, ncalls, activity, norm, exp, file,
                   calls, lists, cli, tui, threads, queue>>

\* fetch_activities: the click on the fetch button
GuiClickFetch ==
    /\ GuiTakesInput
    /\ gui.fetch_button = "normal"
    /\ FreeThread # 0
    /\ gui' = [gui EXCEPT !.fetch_button = "disabled",
                          !.export_button = "disabled",
                          !.status = "Fetching"]
    /\ threads' = [threads EXCEPT ![FreeThread] = [IdleThread EXCEPT !.pc = "parse"]]
    /\ UNCHANGED <<variant, call, prev, ncalls, activity, norm, exp, file,
                   calls, lists, cli, tui, queue>>

\* _fetch_activities_thread: strptime of the two entries
GuiThreadParse(t) ==
    /\ threads[t].pc = "parse"
    /\ threads' = [threads EXCEPT ![t] =
          IF IsNone(gui.start_date_var) \/ IsNone(gui.end_date_var)
          THEN [@ EXCEPT !.pc = "except", !.how = "unparsable"]
          ELSE [@ EXCEPT !.pc = "check",
                         !.start_date = gui.start_date_var[1],
                         !.end_date = gui.end_date_var[1]]]
    /\ UNCHANGED <<variant, call, prev, ncalls, activity, norm, exp, file,
                   calls, lists, cli, gui, tui, queue>>

\* if start_date > end_date: root.after(0, showerror)
GuiThreadCheck(t) ==
    /\ threads[t].pc = "check"
    /\ IF Inverted(threads[t].start_date, threads[t].end_date)
       THEN /\ queue' = After(queue, "showerror", IdleThread, t)
            /\ threads' = [threads EXCEPT ![t].pc = "reenable", ![t].how = "inverted"]
       ELSE /\ queue' = queue
            /\ threads' = [threads EXCEPT ![t].pc = "fetch", ![t].called = TRUE]
    /\ UNCHANGED <<variant, call, prev, ncalls, activity, norm, exp, file,
                   calls, lists, cli, gui, tui>>

\* self.fetch_button.config(state="normal"), in the thread
GuiThreadReenable(t) ==
    /\ threads[t].pc = "reenable"
    /\ gui' = [gui EXCEPT !.fetch_button = "normal"]
    /\ threads' = [threads EXCEPT ![t].pc = "seterror"]
    /\ UNCHANGED <<variant, call, prev, ncalls, activity, norm, exp, file,
                   calls, lists, cli, tui, queue>>

\* self.status_label.config(text="Error"); return
GuiThreadSetError(t) ==
    /\ threads[t].pc = "seterror"
    /\ gui' = [gui EXCEPT !.status = "Error"]
    /\ threads' = [threads EXCEPT ![t].pc = "finally"]
    /\ UNCHANGED <<variant, call, prev, ncalls, activity, norm, exp, file,
                   calls, lists, cli, tui, queue>>

\* activities = self.extractor.get_activities(start_date, end_date)
GuiThreadFetch(t) ==
    /\ threads[t].pc = "fetch"
    /\ \/ \E result \in FetchResults(t, threads[t].start_date, threads[t].end_date) :
             threads' = [threads EXCEPT ![t].pc = "store", ![t].result = result]
       \/ threads' = [threads EXCEPT ![t].pc = "finally", ![t].how = "raised"]
    /\ UNCHANGED <<variant, call, prev, ncalls, activity, norm, exp, file,
                   calls, lists, cli, gui, tui, queue>>

\* the three branches on the result
GuiThreadStore(t) ==
    /\ threads[t].pc = "store"
    /\ LET result == threads[t].result IN
       IF IsNone(result)
       THEN /\ queue' = After(queue, "showerror", IdleThread, t)
            /\ gui' = [gui EXCEPT !.activities = <<>>]
            /\ threads' = [threads EXCEPT ![t].pc = "finally", ![t].how = "auth"]
       ELSE IF result[1] # <<>>
       THEN /\ gui' = [gui EXCEPT !.activities = result[1]]
            /\ queue' = After(queue, "display_preview", IdleThread, t)
            /\ threads' = [threads EXCEPT ![t].pc = "finally", ![t].how = "data"]
       ELSE /\ queue' = After(queue, "showinfo", IdleThread, t)
            /\ gui' = [gui EXCEPT !.activities = <<>>]
            /\ threads' = [threads EXCEPT ![t].pc = "finally", ![t].how = "empty"]
    /\ UNCHANGED <<variant, call, prev, ncalls, activity, norm, exp, file,
                   calls, lists, cli, tui>>

\* except ValueError
GuiThreadExcept(t) ==
    /\ threads[t].pc = "except"
    /\ queue' = After(queue, "showerror", IdleThread, t)
    /\ gui' = [gui EXCEPT !.activities = <<>>]
    /\ threads' = [threads EXCEPT ![t].pc = "finally"]
    /\ UNCHANGED <<variant, call, prev, ncalls, activity, norm, exp, file,
                   calls, lists, cli, tui>>

\* finally: root.after(0, self._update_ui_after_fetch); the thread ends
GuiThreadFinally(t) ==
    /\ threads[t].pc = "finally"
    /\ queue' = After(queue, "update_ui", IdleThread, t)
    /\ threads' = [threads EXCEPT ![t] = ThreadEnded(@)]
    /\ UNCHANGED <<variant, call, prev, ncalls, activity, norm, exp, file,
                   calls, lists, cli, gui, tui>>

\* the main loop runs messagebox.showerror or showinfo: a message box opens
GuiShowMessage ==
    /\ variant = "strava_gui"
    /\ queue # <<>> /\ Head(queue).cb \in {"showerror", "showinfo"}
    /\ gui' = [gui EXCEPT !.dialogs = @ + 1]
    /\ queue' = Tail(queue)
    /\ UNCHANGED <<variant, call, prev, ncalls, activity, norm, exp, file,
                   calls, lists, cli, tui, threads>>

\* the user closes a message box
GuiDismiss ==
    /\ variant = "strava_gui"
    /\ gui.dialogs > 0
    /\ gui' = [gui EXCEPT !.dialogs = @ - 1]
    /\ UNCHANGED <<variant, call, prev, ncalls, activity, norm, exp, file,
                   calls, lists, cli, tui, threads, queue>>

\* _display_preview: the preview pane shows self.activities
GuiDisplayPreview ==
    /\ variant = "strava_gui"
    /\ queue # <<>> /\ Head(queue).cb = "display_preview"
    /\ gui' = [gui EXCEPT !.preview = gui.activities]
    /\ queue' = Tail(queue)
    /\ UNCHANGED <<variant, call, prev, ncalls, activity, norm, exp, file,
                   calls, lists, cli, tui, threads>>

\* _update_ui_after_fetch
GuiUpdateUiAfterFetch ==
    /\ variant = "strava_gui"
    /\ queue # <<>> /\ Head(queue).cb = "update_ui"
    /\ gui' = IF gui.activities # <<>>
              THEN [gui EXCEPT !.fetch_button = "normal",
                               !.export_button = "normal",
                               !.status = "Fetched"]
              ELSE [gui EXCEPT !.fetch_button = "normal",
                               !.export_button = "disabled",
                               !.status = "Failed"]
    /\ queue' = Tail(queue)
    /\ UNCHANGED <<variant, call, prev, ncalls, activity, norm, exp, file,
                   calls, lists, cli, tui, threads>>

\* export_csv: the click on the export button; every way out of it opens a
\* message box
GuiClickExport ==
    /\ variant = "strava_gui"
    /\ GuiTakesInput
    /\ gui.export_button = "normal"
    /\ gui' = [gui EXCEPT !.dialogs = @ + 1]
    /\ UNCHANGED <<variant, call, prev, ncalls, activity, norm, exp, file,
                   calls, lists, cli, tui, threads, queue>>

\* the steps of the fetch threads of the window
GuiThread ==
    /\ variant = "strava_gui"
    /\ \E t \in DOMAIN threads :
          \/ GuiThreadParse(t)
          \/ GuiThreadCheck(t)
          \/ GuiThreadReenable(t)
          \/ GuiThreadSetError(t)
          \/ GuiThreadFetch(t)
          \/ GuiThreadStore(t)
          \/ GuiThreadExcept(t)
          \/ GuiThreadFinally(t)

\* the callbacks the main loop runs
GuiCallback == GuiShowMessage \/ GuiDisplayPreview \/ GuiUpdateUiAfterFetch

\* what the user does
GuiUser ==
    /\ variant = "strava_gui"
    /\ \/ GuiTypeStart
       \/ GuiTypeEnd
       \/ set_last7_days
       \/ GuiClickFetch
       \/ GuiClickExport
       \/ GuiDismiss

(***************************************************************************)
(* cutie-extractor.py: the terminal window, its key handlers, its fetch    *)
(* threads and _handle_fetch_result.                                       *)
(***************************************************************************)
\* the character keys pressed at the custom prompt
CustomKeys == {"0", "-"}

\* ch.isdigit()
KeyDigits == <<"0", "1", "2", "3", "4", "5", "6", "7", "8", "9">>
IsDigit(ch) == \E d \in DOMAIN KeyDigits : KeyDigits[d] = ch

\* int(self.custom_input.strip()) of a non-empty run of digits
RECURSIVE IntOf(_)
IntOf(digits) ==
    IF digits = <<>> THEN 0
    ELSE 10 * IntOf(SubSeq(digits, 1, Len(digits) - 1))
         + (CHOOSE d \in DOMAIN KeyDigits : KeyDigits[d] = digits[Len(digits)]) - 1

\* the days of the quick options, in the order of quick_options; the last
\* one prompts instead
QuickDays == <<7, 30, 3650>>

\* the window after __init__
TuiStart ==
    [ selected_option    |-> 0,
      preview_mode       |-> FALSE,
      preview_choice     |-> 0,
      preview_start      |-> None,
      preview_end        |-> None,
      preview_activities |-> <<>>,
      activities         |-> <<>>,
      loading_win        |-> FALSE,
      custom_key         |-> FALSE,
      custom_input       |-> <<>> ]

\* the window takes keys
TuiTakesInput == variant = "cutie_extractor"

\* show_loading, then threading.Thread(...).start() on a window that ends
\* now and starts days earlier
StartFetch(w, days) ==
    /\ FreeThread # 0
    /\ tui' = [w EXCEPT !.loading_win = TRUE]
    /\ threads' = [threads EXCEPT ![FreeThread] =
                      [IdleThread EXCEPT !.pc = "fetch", !.called = TRUE,
                                         !.end_date = Now,
                                         !.start_date = DaysBefore(Now, days)]]

\* on_up
TuiUp ==
    /\ TuiTakesInput
    /\ tui' = IF tui.preview_mode
              THEN [tui EXCEPT !.preview_choice = IF @ > 0 THEN @ - 1 ELSE @]
              ELSE [tui EXCEPT !.selected_option = IF @ > 0 THEN @ - 1 ELSE @]
    /\ UNCHANGED <<variant, call, prev, ncalls, activity, norm, exp, file,
                   calls, lists, cli, gui, threads, queue>>

\* on_down
TuiDown ==
    /\ TuiTakesInput
    /\ tui' = IF tui.preview_mode
              THEN [tui EXCEPT !.preview_choice = IF @ < 1 THEN @ + 1 ELSE @]
              ELSE [tui EXCEPT !.selected_option =
                                   IF @ < Len(QuickDays) THEN @ + 1 ELSE @]
    /\ UNCHANGED <<variant, call, prev, ncalls, activity, norm, exp, file,
                   calls, lists, cli, gui, threads, queue>>

\* on_enter in the preview: export_preview_csv, until its message box is
\* closed or its exception is printed; nothing of the window changes
TuiEnterExport ==
    /\ TuiTakesInput
    /\ tui.preview_mode /\ tui.preview_choice = 0
    /\ tui' = tui
    /\ UNCHANGED <<variant, call, prev, ncalls, activity, norm, exp, file,
                   calls, lists, cli, gui, threads, queue>>

\* on_enter in the preview: back to the menu
TuiEnterBack ==
    /\ TuiTakesInput
    /\ tui.preview_mode /\ tui.preview_choice # 0
    /\ tui' = [tui EXCEPT !.preview_mode = FALSE, !.preview_choice = 0]
    /\ UNCHANGED <<variant, call, prev, ncalls, activity, norm, exp, file,
                   calls, lists, cli, gui, threads, queue>>

\* on_enter on a quick option: select_days(7), set_this_month,
\* select_all_time
TuiEnterQuick ==
    /\ TuiTakesInput
    /\ ~tui.preview_mode /\ tui.selected_option < Len(QuickDays)
    /\ StartFetch(tui, QuickDays[tui.selected_option + 1])
    /\ UNCHANGED <<variant, call, prev, ncalls, activity, norm, exp, file,
                   calls, lists, cli, gui, queue>>

\* on_enter on the last option: prompt_custom_days
TuiEnterCustom ==
    /\ TuiTakesInput
    /\ ~tui.preview_mode /\ tui.selected_option = Len(QuickDays)
    /\ tui' = [tui EXCEPT !.custom_key = TRUE, !.custom_input = <<>>]
    /\ UNCHANGED <<variant, call, prev, ncalls, activity, norm, exp, file,
                   calls, lists, cli, gui, threads, queue>>

\* _on_custom_key on a character key
TuiCustomChar ==
    /\ TuiTakesInput
    /\ tui.custom_key
    /\ Len(tui.custom_input) < MaxInput
    /\ \E ch \in CustomKeys :
          tui' = [tui EXCEPT !.custom_input = IF IsDigit(ch) THEN Append(@, ch) ELSE @]
    /\ UNCHANGED <<variant, call, prev, ncalls, activity, norm, exp, file,
                   calls, lists, cli, gui, threads, queue>>

\* _on_custom_key on BackSpace
TuiCustomBackSpace ==
    /\ TuiTakesInput
    /\ tui.custom_key
    /\ tui' = [tui EXCEPT !.custom_input =
                   IF @ # <<>> THEN SubSeq(@, 1, Len(@) - 1) ELSE @]
    /\ UNCHANGED <<variant, call, prev, ncalls, activity, norm, exp, file,
                   calls, lists, cli, gui, threads, queue>>

\* _on_custom_key on Return, when Tk runs this binding for the key and not
\* on_enter: int() of the input, then the fetch
TuiCustomReturn ==
    /\ TuiTakesInput
    /\ tui.custom_key
    /\ IF tui.custom_input = <<>>
       THEN /\ tui' = [tui EXCEPT !.custom_key = FALSE]
            /\ threads' = threads
       ELSE StartFetch([tui EXCEPT !.custom_key = FALSE], IntOf(tui.custom_input))
    /\ UNCHANGED <<variant, call, prev, ncalls, activity, norm, exp, file,
                   calls, lists, cli, gui, queue>>

\* the exception leaves the thread and no callback is handed over
Posts_unlessRaised(th) == th.how # "raised"

\* the root.after line comes after the try and its except Exception, so
\* the thread reaches it however the fetch ended
Posts(th) == TRUE

\* _fetch_activities_thread_range: get_activities in its try, with
\* activities = [] when it raises, then
\* root.after(0, lambda: self._handle_fetch_result(activities, start, end));
\* the thread touches nothing of the window in between
TuiThreadFetch(t) ==
    /\ threads[t].pc = "fetch"
    /\ \E th \in { [threads[t] EXCEPT !.result = result] :
                      result \in FetchResults(t, threads[t].start_date,
                                              threads[t].end_date) }
                \cup { [threads[t] EXCEPT !.result = Some(<<>>), !.how = "raised"] } :
          /\ queue' = IF Posts(th)
                       THEN After(queue, "handle_fetch_result", th, t)
                       ELSE queue
          /\ threads' = [threads EXCEPT ![t] = ThreadEnded(th)]
    /\ UNCHANGED <<variant, call, prev, ncalls, activity, norm, exp, file,
                   calls, lists, cli, gui, tui>>

\* every result opens the preview
EntersPreview_always(activities) == TRUE

\* if activities is None: return; if activities:
EntersPreview(activities) == ~IsNone(activities) /\ activities[1] # <<>>

\* _handle_fetch_result, run by the main loop
TuiHandleFetchResult ==
    /\ variant = "cutie_extractor"
    /\ queue # <<>> /\ Head(queue).cb = "handle_fetch_result"
    /\ LET t == Head(queue).t
           activities == Head(queue).activities
           hidden == [tui EXCEPT !.loading_win = FALSE] IN
       /\ tui' = IF EntersPreview(activities)
                 THEN [hidden EXCEPT
                          !.activities = IF IsNone(activities) THEN <<>> ELSE activities[1],
                          !.preview_mode = TRUE,
                          !.preview_choice = 0,
                          !.preview_start = Some(Head(queue).start_date),
                          !.preview_end = Some(Head(queue).end_date),
                          !.preview_activities =
                              IF IsNone(activities) THEN <<>> ELSE activities[1]]
                 ELSE [hidden EXCEPT !.activities = <<>>]
       /\ threads' = [threads EXCEPT ![t].handled = TRUE]
    /\ queue' = Tail(queue)
    /\ UNCHANGED <<variant, call, prev, ncalls, activity, norm, exp, file,
                   calls, lists, cli, gui>>

\* the steps of the fetch threads of the terminal window
TuiThread ==
    /\ variant = "cutie_extractor"
    /\ \E t \in DOMAIN threads : TuiThreadFetch(t)

\* what the user does
TuiUser ==
    \/ TuiUp
    \/ TuiDown
    \/ TuiEnterExport
    \/ TuiEnterBack
    \/ TuiEnterQuick
    \/ TuiEnterCustom
    \/ TuiCustomChar
    \/ TuiCustomBackSpace
    \/ TuiCustomReturn

(***************************************************************************)
(* The three front ends, each started on its own.                          *)
(***************************************************************************)
InitFrontWith(nthreads) ==
    /\ variant \in Variants
    /\ FetchIdle
    /\ NoExtractNoExport
    /\ calls = <<>>
    /\ lists = <<>>
    /\ cli = IF variant = "strava_extractor" THEN CliStart ELSE [pc |-> "off"]
    /\ gui = IF variant = "strava_gui" THEN GuiStart ELSE [status |-> "off"]
    /\ tui = IF variant = "cutie_extractor" THEN TuiStart ELSE [mode |-> "off"]
    /\ threads = [t \in 1..nthreads |-> IdleThread]
    /\ queue = <<>>

InitFront == InitFrontWith(MaxThreads)

CliUser ==
    /\ variant = "strava_extractor"
    /\ (CliLast7 \/ CliStartDate \/ CliEndDate)

\* the steps nobody has to ask for: the threads and the main loop
Background == GuiThread \/ GuiCallback \/ TuiThread \/ TuiHandleFetchResult

NextFront == CliUser \/ GuiUser \/ TuiUser \/ Background

SpecFront == InitFront /\ [][NextFront]_vars

\* the threads run, and the main loop runs the callbacks handed to it
InitFrontLive == InitFrontWith(MaxLiveThreads)

SpecFrontLive == InitFrontLive /\ [][NextFront]_vars /\ WF_vars(Background)

(***************************************************************************)
(* Two fetches one after the other, to compare what they return.  The      *)
(* second fetch is called with the arguments of the first; prev keeps what *)
(* the first one returned.                                                 *)
(***************************************************************************)
InitPair ==
    /\ variant \in Variants
    /\ \E m \in {None, Some(1)} : call = NewCall(4, 7, StravaMaxPerPage, m)
    /\ prev = None
    /\ ncalls = 1
    /\ NoExtractNoExport
    /\ NoFrontEnd

CallAgain ==
    /\ call.pc = "returned"
    /\ ncalls < MaxCalls
    /\ prev' = Some([outcome |-> call.outcome, ret |-> call.ret])
    /\ call' = NewCall(call.start_date, call.end_date, call.per_page_arg,
                       call.max_activities)
    /\ ncalls' = ncalls + 1
    /\ UNCHANGED <<variant, activity, norm, exp, file, frontVars>>

NextPair == Fetch \/ CallAgain

SpecPair == InitPair /\ [][NextPair]_vars

(***************************************************************************)
(* The normalizer alone: extract_activity_data is called on a record.      *)
(***************************************************************************)
InitNorm ==
    /\ variant \in Variants
    /\ \E base \in {FullRecord, EmptyRecord}, es \in [1..MaxEdits -> Edits] :
          activity = ApplyEdits(base, es, MaxEdits)
    /\ norm = [pc |-> "call", input |-> activity, row |-> <<>>]
    /\ exp = ExportIdle
    /\ file = None
    /\ FetchIdle
    /\ NoFrontEnd

\* the call returns its row; the record is only read
ExtractReturn ==
    /\ norm.pc = "call"
    /\ ~IsNone(ExtractActivityData(variant, activity))
    /\ norm' = [norm EXCEPT !.pc = "returned",
                            !.row = ExtractActivityData(variant, activity)[1]]
    /\ UNCHANGED <<variant, call, prev, ncalls, activity, exp, file, frontVars>>

\* a field's expression raises TypeError, which leaves the call
ExtractRaise ==
    /\ norm.pc = "call"
    /\ IsNone(ExtractActivityData(variant, activity))
    /\ norm' = [norm EXCEPT !.pc = "raised"]
    /\ UNCHANGED <<variant, call, prev, ncalls, activity, exp, file, frontVars>>

NextNorm == ExtractReturn \/ ExtractRaise

SpecNorm == InitNorm /\ [][NextNorm]_vars

(***************************************************************************)
(* export_to_csv, statement by statement.  The destination is absent       *)
(* (None) or holds a sequence of CSV records, each a sequence of cells; a  *)
(* cell is the value handed to the csv writer.                             *)
(***************************************************************************)
\* a code point that UTF-8 cannot encode (a lone surrogate out of the JSON)
LoneSurrogate == "U+D800"

\* a field name as the text of a header cell
Text(name) == VStr(<<name>>)

\* what the destination held before a call that finds it there
OldContent == <<<<Text("old")>>>>

\* the records a caller hands to the export
ExportRecords ==
    { FullRecord,
      EmptyRecord,
      [k \in {"id"} |-> VInt(8)],
      [k \in {"distance"} |-> VNone],
      [k \in {"name"} |-> VStr(<<"a", LoneSurrogate>>)],
      [k \in {"name"} |-> VStr(<<"a", ",", "\"", "b", "\n", "\r">>)] }

RECURSIVE ListsUpTo(_)
ListsUpTo(n) ==
    IF n = 0 THEN {<<>>}
    ELSE ListsUpTo(n - 1) \cup
         { Append(l, a) : l \in { m \in ListsUpTo(n - 1) : Len(m) = n - 1 },
                          a \in ExportRecords }

\* the empty list taken for a finished export
ExportCheck_noop(e) ==
    IF e.activities = <<>>
    THEN [e EXCEPT !.pc = "returned", !.result = Some(TRUE)]
    ELSE [e EXCEPT !.pc = "fieldnames"]

\* if not activities: return False
ExportCheck(e) ==
    IF e.activities = <<>>
    THEN [e EXCEPT !.pc = "returned", !.result = Some(FALSE)]
    ELSE [e EXCEPT !.pc = "fieldnames"]

\* the header left out
WriteHeader_none(lines, fieldnames) == lines

\* writer.writeheader()
WriteHeader(lines, fieldnames) ==
    Append(lines, [j \in 1..Len(fieldnames) |-> Text(fieldnames[j])])

\* DictWriter's row: the dict's value for each field name (restval "" for a
\* name the dict lacks)
RowCells(fieldnames, row) ==
    [j \in 1..Len(fieldnames) |->
        IF fieldnames[j] \in { row[i].k : i \in 1..Len(row) }
        THEN ValueOf(row, fieldnames[j]) ELSE VStr(<<>>)]

\* DictWriter raises ValueError for a dict with a key outside fieldnames
ExtraKeys(fieldnames, row) ==
    \E i \in 1..Len(row) : row[i].k \notin { fieldnames[j] : j \in 1..Len(fieldnames) }

\* the text file encodes what it is given as UTF-8
Encodable(cells) ==
    \A j \in 1..Len(cells) :
        cells[j].t = "str" =>
            \A i \in 1..Len(cells[j].s) : cells[j].s[i] # LoneSurrogate

\* writer.writerow(extracted): the lines after it, or None when it raises
WriteRow(lines, fieldnames, row) ==
    IF ExtraKeys(fieldnames, row) \/ ~Encodable(RowCells(fieldnames, row))
    THEN None
    ELSE Some(Append(lines, RowCells(fieldnames, row)))

\* str(i) for an int i
DigitChars == <<"0", "1", "2", "3", "4", "5", "6", "7", "8", "9">>
RECURSIVE Digits(_)
Digits(n) ==
    IF n < 10 THEN <<DigitChars[n + 1]>>
    ELSE Append(Digits(n \div 10), DigitChars[(n % 10) + 1])
IntText(i) == IF i < 0 THEN <<"-">> \o Digits(-i) ELSE Digits(i)

\* repr(x) for a float x of at most three decimals: the integer part, a
\* point and the decimals without trailing zeros, one decimal at least
RECURSIVE Decimals(_, _)
Decimals(frac, width) ==
    IF width = 1 \/ frac % 10 # 0
    THEN [j \in 1..width |->
             DigitChars[((frac \div (10 ^ (width - j))) % 10) + 1]]
    ELSE Decimals(frac \div 10, width - 1)
FloatText(milli) ==
    LET m == IF milli < 0 THEN -milli ELSE milli IN
    (IF milli < 0 THEN <<"-">> ELSE <<>>)
        \o Digits(m \div 1000) \o <<".">> \o Decimals(m % 1000, 3)

\* the text the csv writer makes of a cell: "" for None, the string itself,
\* str() of anything else
CellText(x) ==
    CASE x.t = "none" -> <<>>
      [] x.t = "str" -> x.s
      [] x.t = "bool" -> IF x.n = 1 THEN <<"True">> ELSE <<"False">>
      [] x.t = "int" -> IntText(x.n)
      [] x.t = "float" -> FloatText(x.n)

\* the characters that make QUOTE_MINIMAL quote a field: the delimiter, the
\* quote character and the characters of the line terminator
Special == {",", "\"", "\r", "\n"}

\* quotes left out: a field is written as it is
QuoteField_never(text, alone) == text

\* a field as written: in quotes with every quote doubled when it holds a
\* special character (or is the empty only field of its record)
RECURSIVE Doubled(_)
Doubled(text) ==
    IF text = <<>> THEN <<>>
    ELSE (IF Head(text) = "\"" THEN <<"\"", "\"">> ELSE <<Head(text)>>)
             \o Doubled(Tail(text))
QuoteField(text, alone) ==
    IF (\E i \in 1..Len(text) : text[i] \in Special) \/ (alone /\ text = <<>>)
    THEN <<"\"">> \o Doubled(text) \o <<"\"">>
    ELSE text

\* one record as written: the fields between commas, then "\r\n"
RECURSIVE JoinFields(_, _)
JoinFields(cells, j) ==
    IF j > Len(cells) THEN <<"\r", "\n">>
    ELSE (IF j > 1 THEN <<",">> ELSE <<>>)
             \o QuoteField(CellText(cells[j]), Len(cells) = 1)
             \o JoinFields(cells, j + 1)

\* the text of the file: its records one after the other
RECURSIVE CsvText(_)
CsvText(lines) ==
    IF lines = <<>> THEN <<>>
    ELSE JoinFields(Head(lines), 1) \o CsvText(Tail(lines))

\* the prefixes of what was written that a failed write can leave behind
Prefixes(lines) == { SubSeq(lines, 1, n) : n \in 0..Len(lines) }

InitExport ==
    /\ variant \in Variants
    /\ file \in {None, Some(OldContent)}
    /\ \E as \in ListsUpTo(MaxExportLen) :
          exp = [pc |-> "call", activities |-> as, fieldnames |-> <<>>,
                 i |-> 0, result |-> None, before |-> file]
    /\ activity = EmptyRecord
    /\ norm = NormIdle
    /\ FetchIdle
    /\ NoFrontEnd

\* the guard on the empty list
ExportEmptyCheck ==
    /\ exp.pc = "call"
    /\ exp' = ExportCheck(exp)
    /\ UNCHANGED <<variant, call, prev, ncalls, activity, norm, file, frontVars>>

\* fieldnames = list(self.extract_activity_data(activities[0]).keys())
ExportFieldnames ==
    /\ exp.pc = "fieldnames"
    /\ LET first == ExtractActivityData(variant, exp.activities[1]) IN
       exp' = IF IsNone(first)
              THEN [exp EXCEPT !.pc = "raised"]
              ELSE [exp EXCEPT !.pc = "open", !.fieldnames = KeysOf(first[1])]
    /\ UNCHANGED <<variant, call, prev, ncalls, activity, norm, file, frontVars>>

\* open(filename, "w") creates the file or empties it
ExportOpen ==
    /\ exp.pc = "open"
    /\ file' = Some(<<>>)
    /\ exp' = [exp EXCEPT !.pc = "header"]
    /\ UNCHANGED <<variant, call, prev, ncalls, activity, norm, frontVars>>

\* open raises IOError: except IOError returns False
ExportOpenFails ==
    /\ exp.pc = "open"
    /\ exp' = [exp EXCEPT !.pc = "returned", !.result = Some(FALSE)]
    /\ UNCHANGED <<variant, call, prev, ncalls, activity, norm, file, frontVars>>

ExportWriteHeader ==
    /\ exp.pc = "header"
    /\ file' = Some(WriteHeader(file[1], exp.fieldnames))
    /\ exp' = [exp EXCEPT !.pc = "row", !.i = 1]
    /\ UNCHANGED <<variant, call, prev, ncalls, activity, norm, frontVars>>

\* one turn of the loop: extract_activity_data, then writerow; TypeError,
\* ValueError and UnicodeEncodeError are not IOError and leave the call
ExportRow ==
    /\ exp.pc = "row"
    /\ exp.i <= Len(exp.activities)
    /\ LET extracted == ExtractActivityData(variant, exp.activities[exp.i])
           written == IF IsNone(extracted) THEN None
                      ELSE WriteRow(file[1], exp.fieldnames, extracted[1])
       IN  IF IsNone(written)
           THEN /\ exp' = [exp EXCEPT !.pc = "raised"]
                /\ file' = file
           ELSE /\ exp' = [exp EXCEPT !.i = exp.i + 1]
                /\ file' = Some(written[1])
    /\ UNCHANGED <<variant, call, prev, ncalls, activity, norm, frontVars>>

\* the with block ends: the file is closed, return True
ExportClose ==
    /\ exp.pc = "row"
    /\ exp.i > Len(exp.activities)
    /\ exp' = [exp EXCEPT !.pc = "returned", !.result = Some(TRUE)]
    /\ UNCHANGED <<variant, call, prev, ncalls, activity, norm, file, frontVars>>

\* a write or the closing flush raises IOError: the file keeps some prefix
\* of what was written, except IOError returns False
ExportWriteFails ==
    /\ exp.pc \in {"header", "row"}
    /\ \E kept \in Prefixes(file[1]) : file' = Some(kept)
    /\ exp' = [exp EXCEPT !.pc = "returned", !.result = Some(FALSE)]
    /\ UNCHANGED <<variant, call, prev, ncalls, activity, norm, frontVars>>

NextExport ==
    \/ ExportEmptyCheck
    \/ ExportFieldnames
    \/ ExportOpen
    \/ ExportOpenFails
    \/ ExportWriteHeader
    \/ ExportRow
    \/ ExportClose
    \/ ExportWriteFails

SpecExport == InitExport /\ [][NextExport]_vars

(***************************************************************************)
(* Vocabulary of the properties.                                           *)
(***************************************************************************)
\* the records of pages 1..k, in page order: what the bodies of the first k
\* responses hold
RECURSIVE ConcatPages(_, _)
ConcatPages(got, k) ==
    IF k = 0 THEN <<>> ELSE ConcatPages(got, k - 1) \o got[k].items

Range(s) == { s[i] : i \in 1..Len(s) }

\* the records a return value holds: none for None
RecordsOf(ret) == IF IsNone(ret) THEN {} ELSE Range(ret[1])

\* a response with the given status
HasStatus(r, status) == r.kind = "http" /\ r.status = status

\* a response whose body is a JSON array
IsListPage(r) == r.kind = "http" /\ r.btype = "list"

\* the fetch ended at response k: it was the last response, no request
\* followed it, and the call is over
EndedAt(k) == k = Len(call.got) /\ Len(call.sent) = k /\ call.pc \in {"returned", "raised"}

(***************************************************************************)
(* C1.  If any page response carries status 401, on page 1 or after any    *)
(* number of successful pages, the fetch returns at once, issues no        *)
(* further request, and the returned value holds none of the records       *)
(* accumulated from the earlier pages of the call.                         *)
(***************************************************************************)
C1_AuthFailureDiscards ==
    \A k \in 1..Len(call.got) :
        HasStatus(call.got[k], StatusUnauthorized) =>
            /\ EndedAt(k)
            /\ call.pc = "returned"
            /\ RecordsOf(call.ret) \cap Range(ConcatPages(call.got, k - 1)) = {}

\* a 401 on a later page, after records were accumulated
C1_Witness ==
    /\ Len(call.got) >= 2
    /\ HasStatus(call.got[Len(call.got)], StatusUnauthorized)
    /\ ConcatPages(call.got, Len(call.got) - 1) # <<>>
    /\ call.pc = "returned"

(***************************************************************************)
(* C2.  If page k responds with status 429, the fetch issues no further    *)
(* request and returns exactly the concatenation, in page order, of the    *)
(* records of pages 1..k-1 (the empty list when k = 1).                    *)
(***************************************************************************)
C2_RateLimitKeepsPartial ==
    \A k \in 1..Len(call.got) :
        HasStatus(call.got[k], StatusRateLimited) =>
            /\ EndedAt(k)
            /\ call.pc = "returned"
            /\ call.ret = Some(ConcatPages(call.got, k - 1))

\* a 429 on the third page, after two pages of records
C2_Witness ==
    /\ Len(call.got) = 3
    /\ HasStatus(call.got[3], StatusRateLimited)
    /\ Len(call.got[1].items) >= 1 /\ Len(call.got[2].items) >= 1
    /\ call.pc = "returned"
    /\ Len(call.ret[1]) >= 2

(***************************************************************************)
(* C3.  If the request for page k ends in a transport-level error (a       *)
(* connection failure, a timeout, or a non-2xx status other than 401 and   *)
(* 429), the fetch stops, issues no second request for page k nor any      *)
(* request for a later page, and returns the records accumulated from      *)
(* pages 1..k-1 in page order.                                             *)
(***************************************************************************)
TransportLevelError(r) ==
    \/ r.kind \in {"conn_error", "timeout"}
    \/ /\ r.kind = "http"
       /\ ~(r.status >= 200 /\ r.status < 300)
       /\ r.status \notin {StatusUnauthorized, StatusRateLimited}

C3_TransportErrorStops ==
    \A k \in 1..Len(call.got) :
        TransportLevelError(call.got[k]) =>
            /\ EndedAt(k)
            /\ call.pc = "returned"
            /\ call.ret = Some(ConcatPages(call.got, k - 1))

(***************************************************************************)
(* C4.  Whatever the page response is (a record list, a malformed or       *)
(* non-list body, 401, 429, another non-2xx status, a connection failure,  *)
(* a timeout), get_activities returns a value: no error leaves the call as *)
(* an uncaught exception.                                                  *)
(***************************************************************************)
C4_NeverRaises == call.pc # "raised"

(***************************************************************************)
(* C5.  In a fetch with no cap in which pages 1..k each return at least    *)
(* one record and page k+1 returns none, the fetch issues exactly k+1      *)
(* requests and returns exactly the concatenation of the records of pages  *)
(* 1..k.                                                                   *)
(***************************************************************************)
\* responses 1..k are record lists with a record each, response k+1 is the
\* empty list
ExhaustedAfter(k) ==
    /\ Len(call.got) >= k + 1
    /\ \A j \in 1..k : IsListPage(call.got[j]) /\ call.got[j].items # <<>>
    /\ IsListPage(call.got[k + 1]) /\ call.got[k + 1].items = <<>>

C5_EmptyPageEndsFetch ==
    \A k \in 0..Len(call.got) :
        IsNone(call.max_activities) /\ ExhaustedAfter(k) =>
            /\ EndedAt(k + 1)
            /\ call.pc = "returned"
            /\ call.ret = Some(ConcatPages(call.got, k))

\* two pages of records, then an empty page, with no cap
C5_Witness ==
    /\ IsNone(call.max_activities)
    /\ ExhaustedAfter(2)
    /\ Len(call.sent) = 3
    /\ call.pc = "returned"
    /\ Len(call.ret[1]) >= 2

(***************************************************************************)
(* C6.  In a fetch in which max_activities is set (any integer the caller  *)
(* passes) the returned list never holds more than max_activities records, *)
(* whatever the upstream does; and when the accumulated count reaches or   *)
(* exceeds max_activities after a page is appended, the result is exactly  *)
(* the first max_activities accumulated records.  No list has fewer than 0 *)
(* records, so the statement is written for the caps of 0 and more.        *)
(***************************************************************************)
CapIsSet == ~IsNone(call.max_activities) /\ call.max_activities[1] >= 0

C6_NeverMoreThanCap ==
    CapIsSet /\ call.pc = "returned" /\ ~IsNone(call.ret) =>
        /\ Len(call.ret[1]) <= call.max_activities[1]
        /\ Len(ConcatPages(call.got, Len(call.got))) >= call.max_activities[1] =>
              call.ret[1] = SubSeq(ConcatPages(call.got, Len(call.got)), 1,
                                   call.max_activities[1])

(***************************************************************************)
(* C7.  Once the accumulated record count of a fetch reaches or exceeds    *)
(* max_activities, no further request is issued: request k is issued only  *)
(* while pages 1..k-1 together hold fewer than max_activities records, so  *)
(* a fetch that reaches the cap has issued as many requests as the         *)
(* smallest k for which pages 1..k hold at least max_activities records.   *)
(***************************************************************************)
C7_NoRequestPastCap ==
    CapIsSet =>
        \A k \in 2..Len(call.sent) :
            Len(ConcatPages(call.got, k - 1)) < call.max_activities[1]

(***************************************************************************)
(* C8.  Every request of a fetch carries per_page = min(pageSize, 200):    *)
(* per_page never exceeds 200, a pageSize above 200 raises no error (the   *)
(* request goes out with 200), and per_page, after and before are the same *)
(* on every page of the fetch.                                             *)
(***************************************************************************)
C8_PerPageClamped ==
    /\ \A i \in 1..Len(call.sent) :
          /\ call.sent[i].per_page = Min(call.per_page_arg, 200)
          /\ call.sent[i].per_page <= 200
          /\ call.sent[i].per_page = call.sent[1].per_page
          /\ call.sent[i].after = call.sent[1].after
          /\ call.sent[i].before = call.sent[1].before
    /\ call.per_page_arg > 200 /\ call.pc = "raised" =>
          Len(call.sent) >= 1 /\ Len(call.got) = Len(call.sent)

\* a fetch called with a page size above 200 that has requested two pages
C8_Witness ==
    /\ call.per_page_arg > 200
    /\ Len(call.sent) >= 2
    /\ call.sent[2].per_page = 200

(***************************************************************************)
(* C9.  The i-th request of a fetch carries page = i: requests start at    *)
(* page 1, the page number grows by exactly 1 after each successful        *)
(* non-empty page, no page is requested twice and none is skipped, and a   *)
(* non-success response is always the last response of the fetch.          *)
(***************************************************************************)
\* no response, or a response whose status is not 2xx
NonSuccess(r) == r.kind # "http" \/ ~(r.status >= 200 /\ r.status < 300)

C9_PagesInOrder ==
    /\ \A i \in 1..Len(call.sent) : call.sent[i].page = i
    /\ Len(call.got) <= Len(call.sent) /\ Len(call.sent) <= Len(call.got) + 1
    /\ call.pc = "loop" => call.page = Len(call.got) + 1

C9_NonSuccessIsLast ==
    \A k \in 1..Len(call.got) : NonSuccess(call.got[k]) => EndedAt(k)

C9_OneAttemptPerPage == C9_PagesInOrder /\ C9_NonSuccessIsLast

(***************************************************************************)
(* C10.  The value a fetch returns tells which of the four outcomes (Ok,   *)
(* AuthFailed, RateLimited, TransientFailure) occurred: two fetches that   *)
(* end in different outcomes never return the same value.                  *)
(***************************************************************************)
C10_OutcomesDistinguishable ==
    ~IsNone(prev) /\ call.pc = "returned" /\ prev[1].outcome # call.outcome =>
        prev[1].ret # call.ret

(***************************************************************************)
(* C11.  For every page of a fetch whose response is a success and whose   *)
(* records are appended to the accumulator, exactly one progress           *)
(* observation is emitted, carrying the page's number and the cumulative   *)
(* record count after the append; none is emitted for a page that failed   *)
(* or was empty.                                                           *)
(***************************************************************************)
\* response k was appended: it did not end the fetch by an error, a status
\* return or an empty body
Appended(k) ==
    /\ call.got[k].kind = "http"
    /\ call.got[k].btype \in {"list", "object"}
    /\ call.got[k].items # <<>>

\* the pages appended so far, in order
AppendedPages == { k \in 1..Len(call.got) : Appended(k) }

\* written for the calls with no cap or a cap of 1 or more
C11_ProgressPerAppendedPage ==
    IsNone(call.max_activities) \/ call.max_activities[1] >= 1 =>
        /\ Len(call.progress) = Cardinality(AppendedPages)
        /\ \A i \in 1..Len(call.progress) :
              /\ call.progress[i].page \in AppendedPages
              /\ call.progress[i].page = i
              /\ call.progress[i].total = Len(ConcatPages(call.got, i))

(***************************************************************************)
(* Vocabulary of the normalizer's properties.                              *)
(***************************************************************************)
Compact == variant \in {"cutie_extractor", "strava_gui"}

\* the field names of a row
FieldNames(row) == { row[i].k : i \in 1..Len(row) }

\* the source keys a copy of the normalizer reads
CompactKeys ==
    {"id", "name", "distance", "moving_time", "elapsed_time",
     "total_elevation_gain", "start_date", "average_speed", "max_speed",
     "average_temp", "elev_high", "elev_low", "calories", "pr_count"}
ExtendedKeys ==
    {"id", "name", "type", "start_date", "distance", "moving_time",
     "elapsed_time", "total_elevation_gain", "average_speed", "max_speed",
     "average_heartrate", "max_heartrate", "calories", "location_city",
     "kudos_count", "commute", "trainer", "manual"}
ReadKeys == IF Compact THEN CompactKeys ELSE ExtendedKeys

\* the output fields that come from a source key
OutputsOf(key) ==
    IF Compact THEN {key}
    ELSE CASE key = "start_date" -> {"date", "start_time"}
           [] key = "distance" -> {"distance_m", "distance_km"}
           [] key = "moving_time" -> {"moving_time_s", "moving_time_min"}
           [] key = "elapsed_time" -> {"elapsed_time_s"}
           [] key = "total_elevation_gain" -> {"elevation_gain_m"}
           [] key = "average_speed" -> {"average_speed_ms"}
           [] key = "max_speed" -> {"max_speed_ms"}
           [] key = "average_heartrate" -> {"average_hr"}
           [] key = "max_heartrate" -> {"max_hr"}
           [] key = "location_city" -> {"location"}
           [] key = "kudos_count" -> {"kudos"}
           [] OTHER -> {key}

\* the fields that hold the distance in km, the moving time in minutes, the
\* elapsed time, the elevation gain and the start timestamp
KmField == IF Compact THEN "distance" ELSE "distance_km"
MinutesField == IF Compact THEN "moving_time" ELSE "moving_time_min"
ElapsedField == IF Compact THEN "elapsed_time" ELSE "elapsed_time_s"
ElevationField == IF Compact THEN "total_elevation_gain" ELSE "elevation_gain_m"
StartField == IF Compact THEN "start_date" ELSE "start_time"

Absent(key) == key \notin DOMAIN activity

Abs(i) == IF i >= 0 THEN i ELSE -i

(***************************************************************************)
(* C12.  For one copy of the normalizer, every row extract_activity_data   *)
(* returns has the same field names in the same order, whatever subset of  *)
(* the source fields the record holds: the names and order of the row of a *)
(* complete record.                                                        *)
(***************************************************************************)
C12_FixedShape ==
    norm.pc = "returned" =>
        KeysOf(norm.row) = KeysOf(ExtractActivityData(variant, FullRecord)[1])

\* a row returned for a record that lacks two of the keys
C12_Witness ==
    /\ norm.pc = "returned"
    /\ Absent("id") /\ Absent("calories")
    /\ Len(norm.row) >= 14

ValueWhenAbsent(f) ==
    IF f \in {KmField, MinutesField} THEN {VFloat(0)}
    ELSE IF Compact /\ f \in {"average_speed", "max_speed"} THEN {VInt(0)}
    ELSE {VNone, VStr(<<>>)}

C14_NeverFails == norm.pc # "raised"

(***************************************************************************)
(* C15.  In the compact field set the output average_speed (and likewise   *)
(* max_speed) is the raw metres per second times 3.6 rounded to 2 decimals *)
(* when the raw value is a non-zero number (5.0 gives 18.0), and is the    *)
(* raw falsy value itself, not a rounded zero, when the raw value is zero  *)
(* or absent (the 0 that get() supplies).                                  *)
(***************************************************************************)
\* out is x * 3.6 to the nearest hundredth: |out - 3.6 x| <= 0.005
IsKmhOf(out, x) ==
    /\ out.t = "float"
    /\ out.n % 10 = 0
    /\ 2 * Abs(25 * (out.n \div 10) - 9 * Milli(x)) <= 25

C15_SpeedOf(key) ==
    LET out == ValueOf(norm.row, key) IN
    IF Absent(key) THEN out = VInt(0)
    ELSE LET x == activity[key] IN
         /\ x.t \in {"int", "float"} /\ x.n # 0 => IsKmhOf(out, x)
         /\ x.t \in {"int", "float"} /\ x.n = 0 => out = x
         /\ x = VFloat(5000) => out = VFloat(18000)

C15_CompactSpeeds ==
    Compact /\ norm.pc = "returned" =>
        C15_SpeedOf("average_speed") /\ C15_SpeedOf("max_speed")

\* average_speed 5.0 came out as 18.0 beside a max_speed of 0.0 left as it was
C15_Witness ==
    /\ Compact /\ norm.pc = "returned"
    /\ ~Absent("average_speed") /\ activity["average_speed"] = VFloat(5000)
    /\ ValueOf(norm.row, "average_speed") = VFloat(18000)
    /\ ~Absent("max_speed") /\ activity["max_speed"] = VFloat(0)
    /\ ValueOf(norm.row, "max_speed") = VFloat(0)

(***************************************************************************)
(* C16.  For a record with a whole number of metres as its distance, the   *)
(* normalized distance (compact "distance", extended "distance_km") is     *)
(* distance / 1000 rounded to 2 decimals: the float within 0.005 of it     *)
(* (10234 gives 10.23).  With the divisor 60 the same holds of the moving  *)
(* time in minutes.                                                        *)
(***************************************************************************)
C16_DistanceAndMinutes ==
    norm.pc = "returned" =>
        /\ ~Absent("distance") /\ activity["distance"].t = "int" =>
              LET out == ValueOf(norm.row, KmField)
                  d == activity["distance"].n
              IN  /\ out.t = "float" /\ out.n % 10 = 0
                  /\ Abs(10 * (out.n \div 10) - d) <= 5
                  /\ d = 10234 => out = VFloat(10230)
        /\ ~Absent("moving_time") /\ activity["moving_time"].t = "int" =>
              LET out == ValueOf(norm.row, MinutesField)
                  t == activity["moving_time"].n
              IN  /\ out.t = "float" /\ out.n % 10 = 0
                  /\ 2 * Abs(3 * (out.n \div 10) - 5 * t) <= 3

\* 10236 m came out as 10.24 km and 3661 s as 61.02 min
C16_Witness ==
    /\ norm.pc = "returned"
    /\ ~Absent("distance") /\ activity["distance"] = VInt(10236)
    /\ ValueOf(norm.row, KmField) = VFloat(10240)
    /\ ~Absent("moving_time") /\ activity["moving_time"] = VInt(3661)
    /\ ValueOf(norm.row, MinutesField) = VFloat(61020)

(***************************************************************************)
(* C17.  The elapsed time, the elevation gain and the start timestamp are  *)
(* in the row with exactly the value the record holds for them, and the    *)
(* call leaves the record as it was.                                       *)
(***************************************************************************)
C17_PassThrough ==
    norm.pc = "returned" =>
        /\ ~Absent("elapsed_time") =>
              ValueOf(norm.row, ElapsedField) = activity["elapsed_time"]
        /\ ~Absent("total_elevation_gain") =>
              ValueOf(norm.row, ElevationField) = activity["total_elevation_gain"]
        /\ ~Absent("start_date") =>
              ValueOf(norm.row, StartField) = activity["start_date"]
        /\ activity = norm.input

\* a row returned for a record that holds the three fields
C17_Witness ==
    /\ norm.pc = "returned"
    /\ ~Absent("elapsed_time") /\ activity["elapsed_time"] = VInt(4000)
    /\ ~Absent("total_elevation_gain") /\ activity["total_elevation_gain"] = VFloat(150500)
    /\ ~Absent("start_date") /\ activity["start_date"] = StartDateStr
    /\ ValueOf(norm.row, StartField) = StartDateStr

(***************************************************************************)
(* Vocabulary of the export's properties.                                  *)
(***************************************************************************)
\* the normalized row of the k-th record handed to the export
RowOfInput(k) == ExtractActivityData(variant, exp.activities[k])

\* the header record the first record's row calls for
ExpectedHeader ==
    LET first == RowOfInput(1)[1] IN [j \in 1..Len(first) |-> Text(first[j].k)]

\* the data record the k-th record's row calls for
ExpectedData(k) ==
    LET row == RowOfInput(k)[1] IN [j \in 1..Len(row) |-> row[j].v]

(***************************************************************************)
(* C18.  export_to_csv called with an empty list returns False and leaves  *)
(* the destination untouched: at no point of the call is a missing file    *)
(* created or an existing file's content changed, and no exception leaves  *)
(* the call.                                                               *)
(***************************************************************************)
C18_EmptyExportFails ==
    exp.pc # "idle" /\ exp.activities = <<>> =>
        /\ file = exp.before
        /\ exp.pc \in {"call", "returned"}
        /\ exp.pc = "returned" => exp.result = Some(FALSE)

\* an export of the empty list has returned beside an existing file
C18_Witness ==
    /\ exp.pc = "returned"
    /\ exp.activities = <<>>
    /\ exp.before = Some(OldContent)

(***************************************************************************)
(* C19.  When export_to_csv returns True for a list of n >= 1 records, the *)
(* destination holds n + 1 records: first one header, whose cells are the  *)
(* field names of the first record's normalized row in that row's order,   *)
(* then for k = 1..n the values of the k-th record's normalized row.       *)
(***************************************************************************)
C19_HeaderThenRows ==
    exp.pc = "returned" /\ exp.result = Some(TRUE) /\ exp.activities # <<>> =>
        /\ ~IsNone(file)
        /\ Len(file[1]) = Len(exp.activities) + 1
        /\ file[1][1] = ExpectedHeader
        /\ \A k \in 1..Len(exp.activities) : file[1][k + 1] = ExpectedData(k)

\* two different records were exported over an existing file
C19_Witness ==
    /\ exp.pc = "returned" /\ exp.result = Some(TRUE)
    /\ Len(exp.activities) = 2
    /\ exp.activities[1] # exp.activities[2]
    /\ exp.before = Some(OldContent)
    /\ Len(file[1]) = 3

(***************************************************************************)
(* C20.  Every failed export reaches the caller as the result False, never *)
(* as an exception that leaves export_to_csv; and True is returned only    *)
(* when the header and every row were written.                             *)
(***************************************************************************)
C20_FailureIsAResult ==
    /\ exp.pc # "raised"
    /\ exp.pc = "returned" /\ exp.result = Some(TRUE) =>
          ~IsNone(file) /\ Len(file[1]) = Len(exp.activities) + 1

(***************************************************************************)
(* A CSV reader (comma, double quote, doubled quotes inside a quoted       *)
(* field, records ended by \r\n, \r or \n outside quotes), to read back    *)
(* what the export wrote.  A position is outside quotes when an even       *)
(* number of quote characters precedes it.                                 *)
(***************************************************************************)
Outside(text, i) == Cardinality({ j \in 1..(i - 1) : text[j] = "\"" }) % 2 = 0

\* the k-th smallest position of a set of positions
Nth(S, k) == CHOOSE p \in S : Cardinality({ q \in S : q < p }) = k - 1

\* the positions that end a record (the \n of a \r\n pair goes with its \r)
Breaks(text) ==
    { i \in 1..Len(text) :
        /\ text[i] \in {"\r", "\n"}
        /\ Outside(text, i)
        /\ ~(text[i] = "\n" /\ i > 1 /\ text[i - 1] = "\r") }

\* the first position after the record end at e
AfterBreak(text, e) ==
    IF text[e] = "\r" /\ e < Len(text) /\ text[e + 1] = "\n" THEN e + 2 ELSE e + 1

\* a field without its quotes: of two quotes in a row the first is kept
Unquote(seg) ==
    IF seg = <<>> \/ seg[1] # "\"" THEN seg
    ELSE LET inner == SubSeq(seg, 2, Len(seg) - 1)
             kept == { j \in 1..Len(inner) :
                         ~(inner[j] = "\"" /\ ~Outside(inner, j)) }
         IN  [m \in 1..Cardinality(kept) |-> inner[Nth(kept, m)]]

\* the fields of the record held in positions a..b
FieldsOf(text, a, b) ==
    LET commas == { i \in a..b : text[i] = "," /\ Outside(text, i) }
        n == Cardinality(commas)
    IN  [m \in 1..(n + 1) |->
            Unquote(SubSeq(text,
                           IF m = 1 THEN a ELSE Nth(commas, m - 1) + 1,
                           IF m = n + 1 THEN b ELSE Nth(commas, m) - 1))]

\* the records of a text (one more when text follows the last record end)
CsvParse(text) ==
    LET ends == Breaks(text)
        n == Cardinality(ends)
        StartOf(k) == IF k = 1 THEN 1 ELSE AfterBreak(text, Nth(ends, k - 1))
        rest == IF n = 0 THEN 1 ELSE AfterBreak(text, Nth(ends, n))
        whole == [k \in 1..n |-> FieldsOf(text, StartOf(k), Nth(ends, k) - 1)]
    IN  IF rest <= Len(text) THEN Append(whole, FieldsOf(text, rest, Len(text)))
        ELSE whole

\* the records read back from the destination
ReadBack == CsvParse(CsvText(file[1]))

\* the string form of an exported value: nothing for null, the text of a
\* string, True or False, the decimal digits of a number
StringForm(x) == CellText(x)

(***************************************************************************)
(* C21.  Round trip: when export_to_csv has written n >= 1 records and     *)
(* returned True, reading the CSV back gives the header and n data rows,   *)
(* and in row k, column j, the string form of the value of the j-th field  *)
(* of the k-th record's normalized row.                                    *)
(***************************************************************************)
C21_RoundTrip ==
    exp.pc = "returned" /\ exp.result = Some(TRUE) =>
        ReadBack =
            [k \in 1..(Len(exp.activities) + 1) |->
                IF k = 1
                THEN [j \in 1..Len(ExpectedHeader) |-> ExpectedHeader[j].s]
                ELSE [j \in 1..Len(ExpectedData(k - 1)) |->
                         StringForm(ExpectedData(k - 1)[j])]]

\* a name with a comma, a quote and line breaks was exported after a complete
\* record and read back as one field
C21_Witness ==
    /\ exp.pc = "returned" /\ exp.result = Some(TRUE)
    /\ Len(exp.activities) = 2
    /\ exp.activities[1] = FullRecord
    /\ "name" \in DOMAIN exp.activities[2]
    /\ exp.activities[2]["name"] = VStr(<<"a", ",", "\"", "b", "\n", "\r">>)
    /\ Len(ReadBack) = 3
    /\ ReadBack[3][2] = <<"a", ",", "\"", "b", "\n", "\r">>

(***************************************************************************)
(* C22.  When max_activities is a positive integer the fetch ends whatever *)
(* the upstream answers: every answer to a request either ends the fetch   *)
(* or leaves at least one record more in the accumulator, no more than     *)
(* max_activities requests are sent, and the fetch does end.               *)
(***************************************************************************)
CapIsPositive == ~IsNone(call.max_activities) /\ call.max_activities[1] >= 1

Ended == call.pc \in {"returned", "raised"}

C22_EndsWithinCap ==
    /\ [][CapIsPositive /\ call.pc = "wait" =>
             \/ Ended'
             \/ Len(call'.activities) > Len(call.activities)]_vars
    /\ [](CapIsPositive => Len(call.sent) <= call.max_activities[1])
    /\ (CapIsPositive ~> Ended)

\* a fetch capped at 3 ended on its third request, one record a page
C22_Witness ==
    /\ call.max_activities = Some(3)
    /\ call.pc = "returned"
    /\ Len(call.sent) = 3
    /\ Len(call.activities) = 3

(***************************************************************************)
(* C23.  Calls of get_activities that run interleaved on one extractor do  *)
(* not share state: each call has at most one request under way, and its   *)
(* accumulator, page counter, position and return value are at every       *)
(* moment those of the same call run alone on the responses it has got.    *)
(***************************************************************************)
\* the call run alone on the responses rs, from the i-th on
RECURSIVE RunAlone(_, _, _, _)
RunAlone(v, c, rs, i) ==
    IF i > Len(rs) THEN c
    ELSE RunAlone(v, OnResponse(v, Got(OnSend(c), rs[i]), rs[i]), rs, i + 1)

SameAsAlone(t) ==
    LET alone == RunAlone(variant, InterleavedCall, calls[t].got, 1)
        mine == Frame(t)
    IN  /\ mine.activities = alone.activities
        /\ mine.page = alone.page
        /\ mine.ret = alone.ret
        /\ mine.outcome = alone.outcome
        /\ mine.pc = (IF mine.pc = "wait" THEN OnSend(alone).pc ELSE alone.pc)
        /\ mine.sent = (IF mine.pc = "wait" THEN OnSend(alone).sent ELSE alone.sent)

C23_CallsShareNothing ==
    \A t \in DOMAIN calls :
        /\ Len(calls[t].sent) - Len(calls[t].got) \in {0, 1}
        /\ SameAsAlone(t)

\* two calls are both waiting for their second page, one record each so far
C23_Witness ==
    /\ DOMAIN calls = 1..MaxThreads
    /\ \A t \in {1, 2} :
          /\ calls[t].pc = "wait"
          /\ calls[t].page = 2
          /\ Len(Frame(t).activities) = 1

(***************************************************************************)
(* The windows the front ends fetch.                                       *)
(***************************************************************************)
\* the threads that are inside get_activities
Fetching == { t \in DOMAIN threads : threads[t].pc = "fetch" }

\* C24: every front end enforces the window invariant before fetching:
\* get_activities is never invoked with start after end.  The CLI reaches
\* its call only with an ordered window, a thread of the classic window
\* that found the window inverted never calls, and a thread of the terminal
\* window fetches a window that ends now and starts a whole, non-negative
\* number of days earlier.
C24_WindowOrdered ==
    /\ cli.pc = "called" => cli.start_date <= cli.end_date
    /\ \A t \in Fetching : threads[t].start_date <= threads[t].end_date
    /\ \A t \in DOMAIN threads : threads[t].how = "inverted" => ~threads[t].called
    /\ variant = "cutie_extractor" =>
          \A t \in Fetching :
             /\ threads[t].end_date = Now
             /\ \E days \in 0..3650 : threads[t].start_date = DaysBefore(Now, days)

\* a thread of the classic window turned an inverted window down and the
\* next one is fetching an ordered one
C24_Witness ==
    /\ variant = "strava_gui"
    /\ threads[1].how = "inverted" /\ threads[1].pc = "done"
    /\ threads[2].pc = "fetch"
    /\ threads[2].start_date < threads[2].end_date

(***************************************************************************)
(* The classic window after a fetch, and its fetch threads.                *)
(***************************************************************************)
\* the threads that were started
Started == { t \in DOMAIN threads : threads[t].pc # "idle" }

\* the threads that have not ended
Running == { t \in DOMAIN threads : threads[t].pc \notin {"idle", "done"} }

\* the thread of the latest click
Latest == CHOOSE t \in Started : \A u \in Started : u <= t

\* every attempt is over: no thread runs and the main loop has run every
\* callback handed to it
Settled == Running = {} /\ queue = <<>>

\* the ways an attempt ends without fetched data
WithoutData == {"inverted", "unparsable", "auth", "empty"}

\* C25: in the classic window, after a fetch attempt that ends without
\* fetched data (inverted window, unparsable date, auth failure or empty
\* result), self.activities is empty, the export button is disabled and the
\* status does not report fetched activities.
C25_FailedAttemptLeavesNoData ==
    (/\ variant = "strava_gui"
     /\ Started # {}
     /\ Settled
     /\ threads[Latest].how \in WithoutData)
    => /\ gui.activities = <<>>
       /\ gui.export_button = "disabled"
       /\ gui.status # "Fetched"

\* C26: in the classic window at most one fetch is in progress at any
\* time: no click starts a second fetch thread while one is still running.
C26_OneFetchAtATime ==
    variant = "strava_gui" => Cardinality(Running) <= 1

(***************************************************************************)
(* The preview of the terminal window.                                     *)
(***************************************************************************)
\* the thread whose fetch the preview shows; the threads are numbered in
\* the order their fetches were triggered
Shown(w) == w.preview_activities[1].thread

\* C27: in the terminal window, when several fetches were triggered before
\* earlier ones completed, a fetch started earlier that completes later
\* never overwrites the preview of a fetch triggered after it.
C27_OlderNeverOverwrites ==
    [][(variant = "cutie_extractor"
        /\ tui.preview_activities # <<>> /\ tui'.preview_activities # <<>>)
       => Shown(tui') >= Shown(tui)]_vars

(***************************************************************************)
(* Control comes back to the user.                                         *)
(***************************************************************************)
\* _handle_fetch_result has run for the fetch of thread t
Handled(t) == variant = "cutie_extractor" /\ threads[t].handled

\* C28: every fetch started from a GUI eventually returns control to the
\* user, whatever its outcome: in the terminal window every started fetch
\* thread leads to _handle_fetch_result, which hides the loading overlay,
\* and in the classic window the fetch button is re-enabled after every
\* started fetch.
C28_ControlReturns ==
    /\ \A t \in 1..MaxLiveThreads :
          (variant = "cutie_extractor" /\ threads[t].pc = "fetch") ~> Handled(t)
    /\ [][\A t \in 1..MaxLiveThreads :
             (variant = "cutie_extractor" /\ ~threads[t].handled /\ threads'[t].handled)
             => ~tui'.loading_win]_vars
    /\ (variant = "cutie_extractor" /\ tui.loading_win)
          ~> (variant = "cutie_extractor" /\ ~tui.loading_win)
    /\ (variant = "strava_gui" /\ gui.fetch_button = "disabled")
          ~> (variant = "strava_gui" /\ gui.fetch_button = "normal")

\* a fetch of the terminal window that raised was handled and the overlay
\* is gone
C28_Witness ==
    /\ variant = "cutie_extractor"
    /\ \E t \in DOMAIN threads : threads[t].handled /\ threads[t].how = "raised"
    /\ ~tui.loading_win

(***************************************************************************)
(* The preview mode of the terminal window.                                *)
(***************************************************************************)
\* C29: in the terminal window, whenever preview_mode is true,
\* preview_activities is a non-empty list and preview_activities,
\* preview_start and preview_end come from the same completed fetch; the
\* preview mode is never entered on an auth failure or an empty result.
C29_PreviewIsOneFetch ==
    /\ [](variant = "cutie_extractor" /\ tui.preview_mode =>
            /\ tui.preview_activities # <<>>
            /\ ~IsNone(tui.preview_start) /\ ~IsNone(tui.preview_end)
            /\ \E t \in DOMAIN threads :
                  /\ threads[t].handled
                  /\ \A i \in DOMAIN tui.preview_activities :
                        tui.preview_activities[i] =
                            Fetched(t, tui.preview_start[1], tui.preview_end[1]))
    /\ [][(variant = "cutie_extractor" /\ ~tui.preview_mode /\ tui'.preview_mode)
          => (/\ queue # <<>>
              /\ ~IsNone(Head(queue).activities)
              /\ Head(queue).activities[1] # <<>>
              /\ tui'.preview_activities = Head(queue).activities[1])]_vars

\* the preview shows the second fetch, of the 30-day window, after the
\* first fetch was handled
C29_Witness ==
    /\ variant = "cutie_extractor"
    /\ tui.preview_mode
    /\ threads[1].handled
    /\ tui.preview_activities = <<Fetched(2, DaysBefore(Now, 30), Now)>>
    /\ tui.preview_start = Some(DaysBefore(Now, 30))
====
